---- MODULE Spec2Model ----
(***************************************************************************)
(* State-machine model of the VetPro knowledge-enrichment pipeline         *)
(* (sensa-ai-tech/vetpro).                                                 *)
(*                                                                         *)
(*   SpecFetch : one call of fetchWithRetry (rate-limited fetch client)    *)
(*   SpecFile  : surgicalUpdateGuidelineRefs on the lines of a YAML file   *)
(*   Spec      : live / dry runs of the three guidelineRefs enrichers      *)
(*               (enrich-guidelinerefs, deep-literature-scan,              *)
(*               rare-knowledge-rescue) over a small catalog               *)
(*   SpecRun   : the database-logged pipelines (update-pubmed,             *)
(*               sync-ontologies, validate-links) and their update_logs    *)
(*   SpecBatch : batch runs of the three enrichers over a catalog, with    *)
(*               the checkpoint of deep-literature-scan and                *)
(*               rare-knowledge-rescue in pipeline-state.json              *)
(*               (SpecBatchFair: the same with fairness)                   *)
(*   SpecResolve : the entity resolvers: isDuplicate of                    *)
(*               deduplicate-diseases and the matching loop of             *)
(*               match-book-vetpro, with their Dice scores                 *)
(*   SpecMerge : runs of merge-book-ddx (Phase 2a + 2b) and of             *)
(*               enrich-ddx-auto over the disease files                    *)
(*   SpecPub   : the queries of update-pubmed: runQuery, the references    *)
(*               and links it writes, its fetch() calls and sleeps         *)
(*   SpecLink  : the groups of concurrent checks of validate-links, one    *)
(*               step per request answered                                 *)
(*   SpecRescue : repeated live auto-batch runs of rare-knowledge-rescue   *)
(*               (SpecRescueFair: the same with fairness)                  *)
(***************************************************************************)
EXTENDS Integers, Sequences, FiniteSets, TLC

VARIABLES
    \* ---- fetchWithRetry ----
    fpc,        \* "attempt" | "returned" | "thrown"
    attempt,    \* loop variable of fetchWithRetry
    responses,  \* outcomes of the fetch() calls issued so far, in order
    waits,      \* sleeps performed so far, in order: [attempt, ms]
    payloads,   \* number of decoded payloads returned to the caller
    ferr,       \* "" | the error the call raised
    \* ---- surgicalUpdateGuidelineRefs ----
    file,       \* the lines of one disease YAML file (raw.split("\n"))
    file0,      \* the lines the file had before the first update
    nUpdates,   \* number of surgical updates applied to the file
    \* ---- processDisease of the three guidelineRefs enrichers ----
    guidelineRefs,   \* guidelineRefs of the disease file, as on disk
    guidelineRefs0,  \* guidelineRefs the file had before the first run
    world,      \* what the provider answers to the search queries
    isExotic,   \* the file's species include an exotic one (disease.isExotic)
    nCalls,     \* number of processDisease calls made so far
    last,       \* the last processDisease call and what it reported
    streak,     \* consecutive clean live runs of the same script
    \* ---- main() of the batch scripts ----
    pipeline,   \* the script whose main() ran last
    rpc,        \* position of main(): "idle" | "running" (in its loop) |
                \* "done" (ended after the loop) | "caught" (ended in catch)
                \* | "crashed" (the insert of the catch block raised)
    entities,   \* number of entities the run loaded
    outcomes,   \* per entity attempted so far, in order: "ok" | "fail"
    totalAdded,    \* main()'s counter of added records
    totalUpdated,  \* main()'s counter of updated / checked records
    update_logs,   \* rows of the update_logs table, in insertion order
    exitCode,   \* exit code of the last run's process, -1 while it runs
    nRuns,      \* number of runs started so far
    \* ---- main() of the resumable YAML batch scripts ----
    catalog,    \* the disease files, in file-name order
    stateFile,  \* data/pipeline-state.json
    bargs,      \* command line of the batch run: script, flags
    bpc,        \* "idle" | "running" (in the loop) | "done"
    toProcess,  \* the batch main() selected
    bdone,      \* number of entities of the batch processed so far
    btotal,     \* main()'s totalAdded
    ckptBatch,  \* per script: the slugs of the batch that wrote its checkpoint
    nBatches,   \* number of batch runs started so far
    \* ---- the entity resolvers ----
    vetpro,     \* the diseases of data/diseases, in file-name order
    scored,     \* the last pair of names scored, with both Dice scores
    decisions,  \* deduplicate-diseases: isDuplicate's answers, in order
    newSlugs,   \* deduplicate-diseases: slugs accepted as new in this run
    results,    \* match-book-vetpro: results, in order
    matched,    \* match-book-vetpro: slugs of the diseases matched so far
    \* ---- merge-book-ddx and enrich-ddx-auto ----
    disk,       \* data/diseases: per slug, the parsed file or no file
    mlast,      \* the last run of either script and the counts it printed
    nMerges,    \* number of runs of either script so far
    \* ---- update-pubmed: queries, references and links ----
    references,         \* rows of the references table: [pmid, url], in
                        \* insertion order (a row's id is its position)
    diseaseReferences,  \* rows of disease_references: diseaseId, referenceId
    http,       \* the run's fetch() calls and sleeps, in order
    ppc,        \* position of main(): "idle" | "running" | "done" | "failed"
    qnext,      \* index of the next query, global queries first
    returned,   \* <<diseaseSlug, pmid>> the per-disease queries returned
    pubAdded,   \* main()'s totalAdded
    nPubRuns,   \* number of runs started so far
    diseases,   \* the slugs of the rows of the diseases table
    seedResult, \* <<>> | what the last seed returned, or that it raised
    nSeeds,     \* number of seeds run so far
    \* ---- validate-links: the groups of concurrent checks ----
    linkDb,     \* the rows of references and of diseases the run reads
    allUrls,    \* the entries collected from the database
    lpc,        \* position of main(): "idle" | "loop" (at the head of the
                \* for loop) | "group" (awaiting Promise.all) | "done"
    li,         \* loop variable i
    checks,     \* per unique URL: "queued" | "head" | "get" (that request
                \* is in flight) | "settled" (checkUrl returned)
    answered,   \* per unique URL: what its requests were answered, in order
    settled,    \* per unique URL: the result checkUrl returned
    lresults    \* results

fetchVars == <<fpc, attempt, responses, waits, payloads, ferr>>
fileVars == <<file, file0, nUpdates>>
enrichVars ==
    <<guidelineRefs, guidelineRefs0, world, isExotic, nCalls, last, streak>>

runVars ==
    <<pipeline, rpc, entities, outcomes, totalAdded, totalUpdated,
      update_logs, exitCode, nRuns>>

batchVars ==
    <<catalog, stateFile, bargs, bpc, toProcess, bdone, btotal, ckptBatch,
      nBatches>>

resolveVars == <<vetpro, scored, decisions, newSlugs, results, matched>>

mergeVars == <<disk, mlast, nMerges>>

\* the parts added after the resolvers
pubVars ==
    <<references, diseaseReferences, http, ppc, qnext, returned, pubAdded,
      nPubRuns, diseases, seedResult, nSeeds>>
linkVars == <<linkDb, allUrls, lpc, li, checks, answered, settled, lresults>>
extraVars == <<mergeVars, pubVars, linkVars>>

vars ==
    <<fetchVars, fileVars, enrichVars, runVars, batchVars, resolveVars,
      extraVars>>

\* what a specification leaves alone
notFetch == <<fileVars, enrichVars, runVars, batchVars, resolveVars,
    extraVars>>
notFile == <<fetchVars, enrichVars, runVars, batchVars, resolveVars,
    extraVars>>
notEnrich == <<fetchVars, fileVars, runVars, batchVars, resolveVars,
    extraVars>>
notRun == <<fetchVars, fileVars, enrichVars, batchVars, resolveVars,
    extraVars>>
notBatch == <<fetchVars, fileVars, enrichVars, runVars, resolveVars,
    extraVars>>
notResolve == <<fetchVars, fileVars, enrichVars, runVars, batchVars,
    extraVars>>
coreVars == <<fetchVars, fileVars, enrichVars, runVars, batchVars, resolveVars>>
notMerge == <<coreVars, pubVars, linkVars>>
notPub == <<coreVars, mergeVars, linkVars>>
notLink == <<coreVars, mergeVars, pubVars>>

\* no run of merge-book-ddx or enrich-ddx-auto
IdleMergeVars ==
    /\ disk = <<>>
    /\ mlast = <<>>
    /\ nMerges = 0

\* no run of update-pubmed's queries
IdlePubVars ==
    /\ references = <<>>
    /\ diseaseReferences = <<>>
    /\ http = <<>>
    /\ ppc = "idle"
    /\ qnext = 0
    /\ returned = {}
    /\ pubAdded = 0
    /\ nPubRuns = 0
    /\ diseases = {}
    /\ seedResult = <<>>
    /\ nSeeds = 0

\* no run of validate-links' checks
IdleLinkVars ==
    /\ linkDb = [references |-> <<>>, stagings |-> <<>>]
    /\ allUrls = <<>>
    /\ lpc = "idle"
    /\ li = 0
    /\ checks = <<>>
    /\ answered = <<>>
    /\ settled = <<>>
    /\ lresults = <<>>

IdleExtraVars == IdleMergeVars /\ IdlePubVars /\ IdleLinkVars

(***************************************************************************)
(* Rate-limited fetch client: fetchWithRetry                               *)
(***************************************************************************)
MAX_RETRIES == 3
RETRY_DELAY_MS == 2000

\* What one fetch(url) can produce: the promise rejects (network error or
\* timeout), a response whose body can be read, or a 2xx response whose
\* body read (res.text()) rejects.
HttpStatuses == {200, 204, 400, 404, 429, 500, 503}
Responses ==
    {[kind |-> "reject", status |-> 0]}
      \cup {[kind |-> "status", status |-> s] : s \in HttpStatuses}
      \cup {[kind |-> "badbody", status |-> 200]}

\* res.ok
ResOk(r) == r.status >= 200 /\ r.status <= 299

\* the two branches that sleep and `continue`: status === 429, status >= 500
IsRetryable(r) == r.kind # "reject" /\ (r.status = 429 \/ r.status >= 500)

\* the attempt ends in `return await res.text()`
IsSuccess(r) == r.kind = "status" /\ ~IsRetryable(r) /\ ResOk(r)

\* a non-2xx status other than 429 and 5xx (`if (!res.ok) throw`)
IsPermanent(r) == r.kind = "status" /\ ~IsRetryable(r) /\ ~ResOk(r)

BackoffConst(a) == RETRY_DELAY_MS
\* const wait = 2000 * attempt
Backoff(a) == RETRY_DELAY_MS * a

WaitsOfAttemptNoContinue(r, a) ==
    IF IsRetryable(r)
    THEN IF a = MAX_RETRIES THEN <<Backoff(a)>> ELSE <<Backoff(a), Backoff(a)>>
    ELSE IF IsSuccess(r) \/ a = MAX_RETRIES THEN <<>> ELSE <<Backoff(a)>>
\* The sleeps one loop iteration performs, in order.  A 429/5xx answer sleeps
\* in the try block and continues; anything thrown inside the try block (a
\* rejected fetch, `throw new Error("HTTP ...")` for a non-ok status, a
\* rejected body read) lands in the catch block, which rethrows on the last
\* attempt and otherwise sleeps and lets the loop go on.
WaitsOfAttempt(r, a) ==
    IF IsRetryable(r) THEN <<Backoff(a)>>
    ELSE IF IsSuccess(r) THEN <<>>
    ELSE IF a = MAX_RETRIES THEN <<>>
    ELSE <<Backoff(a)>>

TagWaits(ms, a) == [i \in 1..Len(ms) |-> [attempt |-> a, ms |-> ms[i]]]

InitFetchVars ==
    /\ fpc = "attempt"
    /\ attempt = 1
    /\ responses = <<>>
    /\ waits = <<>>
    /\ payloads = 0
    /\ ferr = ""

\* One iteration of the for loop: the request, the classification of its
\* outcome, the sleep, and the loop exit.
FetchAttempt(r) ==
    /\ fpc = "attempt"
    /\ attempt <= MAX_RETRIES
    /\ UNCHANGED notFetch
    /\ responses' = Append(responses, r)
    /\ waits' = waits \o TagWaits(WaitsOfAttempt(r, attempt), attempt)
    /\ IF IsSuccess(r)
       THEN /\ fpc' = "returned"
            /\ payloads' = payloads + 1
            /\ UNCHANGED <<attempt, ferr>>
       ELSE /\ UNCHANGED payloads
            /\ IF attempt = MAX_RETRIES
               THEN /\ fpc' = "thrown"
                    /\ ferr' = IF IsRetryable(r) THEN "Max retries exceeded"
                               ELSE IF r.kind = "status" THEN "HTTP" ELSE "rejected"
                    /\ UNCHANGED attempt
               ELSE /\ attempt' = attempt + 1
                    /\ UNCHANGED <<fpc, ferr>>


(***************************************************************************)
(* YAML surgical update: surgicalUpdateGuidelineRefs                       *)
(*                                                                         *)
(* A file is the array raw.split("\n").  A line is [k, v]: k is what the   *)
(* regular expressions of the function can tell apart, v identifies the    *)
(* text of the line.                                                       *)
(*   "gref"    guidelineRefs: ...        (matches /^guidelineRefs:/)        *)
(*   "pmq"     pubmedQueries: ...        (matches /^pubmedQueries:/)        *)
(*   "key"     any other top-level key   (matches /^[a-zA-Z]/)              *)
(*   "ind"     a line of a field's value (indented, or a "- item" line)     *)
(*   "blank"   the empty line                                               *)
(*   "comment" a # comment in column 0                                      *)
(***************************************************************************)
MaxLines == 5
MaxUpdates == 2

GrefLine == [k |-> "gref", v |-> <<0, "guidelineRefs">>]
BlankLine == [k |-> "blank", v |-> <<0, "">>]

LineTokens ==
    { [k |-> "key", v |-> <<0, "slug">>],
      [k |-> "key", v |-> <<0, "nameEn">>],
      [k |-> "pmq", v |-> <<0, "pubmedQueries">>],
      GrefLine,
      [k |-> "ind", v |-> <<0, "value">>],
      BlankLine,
      [k |-> "comment", v |-> <<0, "#">>] }

\* What yaml.load reads as a mapping: the file has a top-level key, no key
\* occurs twice, and every value line comes after some key (blank lines and
\* comments may stand anywhere, before the first key included).
WellFormedFile(f) ==
    /\ \E i \in 1..Len(f) : f[i].k \in {"key", "gref", "pmq"}
    /\ \A i, j \in 1..Len(f) :
          (i # j /\ f[i].k \in {"key", "gref", "pmq"}) => f[i] # f[j]
    /\ \A i \in 1..Len(f) :
          f[i].k = "ind" => \E h \in 1..(i - 1) : f[h].k \in {"key", "gref", "pmq"}

InitialFiles ==
    { f \in UNION { [1..n -> LineTokens] : n \in 1..MaxLines } : WellFormedFile(f) }

\* the refs handed to the function: sourceOrg, title, url, type, pmid?
RefArgs ==
    { <<>>,
      << [id |-> 1, pmid |-> TRUE] >>,
      << [id |-> 1, pmid |-> TRUE], [id |-> 2, pmid |-> FALSE] >> }

\* lines[i].match(/^guidelineRefs:/)
IsGrefLine(l) == l.k = "gref"
\* lines[j].match(/^[a-zA-Z]/) && !lines[j].match(/^\s/)
StartsWithLetter(l) == l.k \in {"key", "gref", "pmq"}
\* lines[i].match(/^pubmedQueries:/)
IsPubmedQueriesLine(l) == l.k = "pmq"

\* index of the first guidelineRefs line (0: none; the code's -1)
StartIdx(lines) ==
    IF \E i \in 1..Len(lines) : IsGrefLine(lines[i])
    THEN CHOOSE i \in 1..Len(lines) :
            /\ IsGrefLine(lines[i])
            /\ \A h \in 1..(i - 1) : ~IsGrefLine(lines[h])
    ELSE 0

EndIdxToEof(lines, si) == Len(lines) + 1
\* index of the next top-level key after the section start, or one past the
\* last line (the code's lines.length)
EndIdx(lines, si) ==
    IF \E j \in (si + 1)..Len(lines) : StartsWithLetter(lines[j])
    THEN CHOOSE j \in (si + 1)..Len(lines) :
            /\ StartsWithLetter(lines[j])
            /\ \A h \in (si + 1)..(j - 1) : ~StartsWithLetter(lines[h])
    ELSE Len(lines) + 1

\* where a missing section is inserted: before pubmedQueries, or at the end
InsertAt(lines) ==
    IF \E i \in 1..Len(lines) : IsPubmedQueriesLine(lines[i])
    THEN CHOOSE i \in 1..Len(lines) :
            /\ IsPubmedQueriesLine(lines[i])
            /\ \A h \in 1..(i - 1) : ~IsPubmedQueriesLine(lines[h])
    ELSE Len(lines) + 1

RefLines(r) ==
    << [k |-> "ind", v |-> <<r.id, "sourceOrg">>],
       [k |-> "ind", v |-> <<r.id, "title">>],
       [k |-> "ind", v |-> <<r.id, "url">>],
       [k |-> "ind", v |-> <<r.id, "type">>] >>
    \o (IF r.pmid THEN << [k |-> "ind", v |-> <<r.id, "pmid">>] >> ELSE <<>>)

RECURSIVE NewSectionBody(_)
NewSectionBody(refs) ==
    IF refs = <<>> THEN <<>>
    ELSE RefLines(Head(refs)) \o NewSectionBody(Tail(refs))

\* const newSection = ["guidelineRefs:", ...]
NewSection(refs) == <<GrefLine>> \o NewSectionBody(refs)

\* lines.splice(at, del, ...ins), `at` 1-based
Splice(lines, at, del, ins) ==
    SubSeq(lines, 1, at - 1) \o ins \o SubSeq(lines, at + del, Len(lines))

SurgicalUpdateGuidelineRefs(lines, refs) ==
    LET si == StartIdx(lines)
    IN  IF si = 0
        THEN Splice(lines, InsertAt(lines), 0, <<BlankLine>> \o NewSection(refs))
        ELSE Splice(lines, si, EndIdx(lines, si) - si, NewSection(refs))

InitFileVars ==
    /\ file \in InitialFiles
    /\ file0 = file
    /\ nUpdates = 0

IdleFileVars ==
    /\ file = <<>>
    /\ file0 = <<>>
    /\ nUpdates = 0

SurgicalUpdate(rs) ==
    /\ nUpdates < MaxUpdates
    /\ file' = SurgicalUpdateGuidelineRefs(file, rs)
    /\ nUpdates' = nUpdates + 1
    /\ UNCHANGED file0
    /\ UNCHANGED notFile

(***************************************************************************)
(* The guidelineRefs enrichers: processDisease of enrich-guidelinerefs     *)
(* ("enrich"), of deep-literature-scan ("deep") and processRareDisease of  *)
(* rare-knowledge-rescue ("rare"), on one disease file.                    *)
(*                                                                         *)
(* A ref of the file is                                                    *)
(*   pmidKind  "none" | "str" | "num"  the pmid key: absent, a YAML string *)
(*                                     (pmid: "123"), a YAML number        *)
(*   pmid      the PMID the key holds (0 when absent)                      *)
(*   urlKind   "pubmed"  https://pubmed.ncbi.nlm.nih.gov/<urlId>/          *)
(*             "bare"    https://pubmed.ncbi.nlm.nih.gov/                  *)
(*             "pmc"     https://www.ncbi.nlm.nih.gov/pmc/articles/...     *)
(*             "other"   any other URL                                     *)
(*   urlId     the PMID in a "pubmed" URL (0 otherwise)                    *)
(*   type      the ref's type                                              *)
(*   text      stands for sourceOrg and title (0: authored text, else the  *)
(*             PMID of the article the text came from)                     *)
(*   extra     the ref carries keys besides sourceOrg/title/url/type/pmid  *)
(***************************************************************************)
MaxCalls == 3
MAX_NEW_REFS_PER_DISEASE == 3
MAX_REFS_PER_DISEASE == 5
RARE_TARGET_REFS == 3
RARE_CANDIDATE_LIMIT == 15

Scripts == {"enrich", "deep", "rare"}
Failures == {"none", "search", "details", "io"}

PMIDs == 1..5

\* The provider's article records (efetch): PMC id present?, the categories
\* its PublicationType tags contain, the category words its title contains,
\* and the publication year.
Articles ==
    [ p \in PMIDs |->
        CASE p = 1 -> [pmid |-> 1, isPmc |-> TRUE,  tags |-> {"review"},
                       titleWords |-> {}, year |-> 2020]
          [] p = 2 -> [pmid |-> 2, isPmc |-> FALSE, tags |-> {"guideline", "consensus"},
                       titleWords |-> {}, year |-> 2022]
          [] p = 3 -> [pmid |-> 3, isPmc |-> TRUE,  tags |-> {"case reports"},
                       titleWords |-> {}, year |-> 2019]
          [] p = 4 -> [pmid |-> 4, isPmc |-> FALSE, tags |-> {},
                       titleWords |-> {"consensus", "review"}, year |-> 2023]
          [] p = 5 -> [pmid |-> 5, isPmc |-> TRUE,  tags |-> {},
                       titleWords |-> {}, year |-> 2021] ]

\* The provider's answers (esearch idlist) to the queries of one disease, by
\* query number; a script with fewer queries uses the first ones.
Worlds ==
    { << <<1, 2, 3>>, <<3, 4>>, <<5>>, <<>>, <<>> >>,
      << <<>>, <<2>>, <<>>, <<>>, <<>> >>,
      << <<4, 1>>, <<1, 5, 2, 3>>, <<>>, <<3>>, <<>> >> }

\* number of queries: buildSearchQueries / buildDeepQueries /
\* buildRescueQueries, which adds two queries for an exotic disease
NumQueries(script, exotic) ==
    IF script = "enrich" THEN 4
    ELSE IF script = "deep" THEN 5
    ELSE IF exotic THEN 5 ELSE 3

AuthoredRef(pk, p, uk, u, x) ==
    [pmidKind |-> pk, pmid |-> p, urlKind |-> uk, urlId |-> u,
     type |-> "guideline", text |-> 0, extra |-> x]

\* guidelineRefs lists a curated file can hold; no PMID occurs twice
InitialRefLists ==
    { <<>>,
      << AuthoredRef("str", 1, "pubmed", 1, FALSE) >>,
      << AuthoredRef("num", 2, "pmc", 0, FALSE) >>,
      << AuthoredRef("none", 0, "pubmed", 3, FALSE) >>,
      << AuthoredRef("str", 4, "bare", 0, FALSE) >>,
      << AuthoredRef("none", 0, "other", 0, TRUE) >>,
      << AuthoredRef("str", 1, "pubmed", 1, FALSE),
         AuthoredRef("none", 0, "other", 0, FALSE) >>,
      << AuthoredRef("str", 5, "pmc", 0, FALSE),
         AuthoredRef("none", 0, "other", 0, FALSE),
         AuthoredRef("str", 4, "pubmed", 4, FALSE) >>,
      << AuthoredRef("str", 5, "pmc", 0, FALSE),
         AuthoredRef("none", 0, "other", 0, FALSE),
         AuthoredRef("str", 4, "pubmed", 4, FALSE),
         AuthoredRef("none", 0, "other", 0, FALSE) >> }

\* ---- Step 1 of enrich-guidelinerefs: fix broken existing refs ----
\* if (!ref.pmid && ref.url) and the url holds a PubMed id: ref.pmid = id
NeedsPmidFix(r) == r.pmidKind = "none" /\ r.urlKind = "pubmed"
FixPmid(r) ==
    IF NeedsPmidFix(r) THEN [r EXCEPT !.pmidKind = "str", !.pmid = r.urlId] ELSE r
\* if (ref.url === "https://pubmed.ncbi.nlm.nih.gov/" && ref.pmid)
NeedsUrlFix(r) == r.urlKind = "bare" /\ r.pmidKind # "none"
FixUrl(r) ==
    IF NeedsUrlFix(r) THEN [r EXCEPT !.urlKind = "pubmed", !.urlId = r.pmid] ELSE r
FixRef(r) == FixUrl(FixPmid(r))
FixCount(rs) ==
    Cardinality({i \in 1..Len(rs) : NeedsPmidFix(rs[i])})
      + Cardinality({i \in 1..Len(rs) : NeedsUrlFix(FixPmid(rs[i]))})
Step1(script, rs) ==
    IF script = "enrich" THEN [i \in 1..Len(rs) |-> FixRef(rs[i])] ELSE rs
Fixed(script, rs) == IF script = "enrich" THEN FixCount(rs) ELSE 0

\* ---- Step 2: existing PMIDs ----
\* The members of the Set: <<"s", n>> is the string "n", <<"n", n>> the
\* number n.  enrich-guidelinerefs adds ref.pmid as it is, the other two
\* scripts add String(ref.pmid); all add the id found in a PubMed url.
PmidKey(script, r) ==
    IF r.pmidKind = "none" THEN {}
    ELSE IF script = "enrich" /\ r.pmidKind = "num" THEN {<<"n", r.pmid>>}
    ELSE {<<"s", r.pmid>>}
UrlKey(r) == IF r.urlKind = "pubmed" THEN {<<"s", r.urlId>>} ELSE {}
ExistingPmids(script, rs) ==
    UNION { PmidKey(script, rs[i]) \cup UrlKey(rs[i]) : i \in 1..Len(rs) }

\* ---- Step 3: the cap and the searches ----
\* enrich: currentCount < 2 ? 3 : (currentCount < 3 ? 2 : 1)
\* deep:   Math.max(1, MAX_REFS_PER_DISEASE - refCount)
\* rare:   Math.max(1, 3 - refCount)
MaxToAddFlat(script, count) == MAX_REFS_PER_DISEASE
MaxToAdd(script, count) ==
    IF script = "enrich"
    THEN IF count < 2 THEN MAX_NEW_REFS_PER_DISEASE ELSE IF count < 3 THEN 2 ELSE 1
    ELSE IF script = "deep"
    THEN IF MAX_REFS_PER_DISEASE - count > 1 THEN MAX_REFS_PER_DISEASE - count ELSE 1
    ELSE IF RARE_TARGET_REFS - count > 1 THEN RARE_TARGET_REFS - count ELSE 1

\* enrich only: if (maxToAdd <= 0 && currentCount >= 4) skip the search
SkipSearch(script, count) ==
    script = "enrich" /\ MaxToAdd(script, count) <= 0 /\ count >= 4

\* candidates are collected until this many are at hand, and that many are
\* fetched: maxToAdd * 3, MAX_REFS_PER_DISEASE * 3, 15
CandidateLimit(script, count) ==
    IF script = "enrich" THEN MaxToAdd(script, count) * 3
    ELSE IF script = "deep" THEN MAX_REFS_PER_DISEASE * 3
    ELSE RARE_CANDIDATE_LIMIT

InSeq(x, sq) == \E i \in 1..Len(sq) : sq[i] = x

\* for (const pmid of result)
\*   if (!existingPmids.has(pmid) && !candidatePmids.includes(pmid)) push
RECURSIVE AddNew(_, _, _)
AddNew(cands, result, existing) ==
    IF result = <<>> THEN cands
    ELSE LET p == Head(result)
         IN  AddNew(IF <<"s", p>> \notin existing /\ ~InSeq(p, cands)
                    THEN Append(cands, p) ELSE cands,
                    Tail(result), existing)

\* for (const q of queries) { if (candidatePmids.length >= limit) break; ... }
\* a search that throws is caught and adds nothing
RECURSIVE Collect(_, _, _, _, _, _)
Collect(cands, q, nq, w, existing, limit) ==
    IF q > nq \/ Len(cands) >= limit THEN cands
    ELSE Collect(AddNew(cands, w[q], existing), q + 1, nq, w, existing, limit)

\* number of searches issued
RECURSIVE Searches(_, _, _, _, _, _)
Searches(cands, q, nq, w, existing, limit) ==
    IF q > nq \/ Len(cands) >= limit THEN 0
    ELSE 1 + Searches(AddNew(cands, w[q], existing), q + 1, nq, w, existing, limit)

NoResults == << <<>>, <<>>, <<>>, <<>>, <<>> >>

\* ---- Step 4: article details, ranking, selection ----
\* articleType from the PublicationType tags, then (enrich, deep) from the
\* title when the tags left it at "research"
TypeFromTags(script, a) ==
    IF "guideline" \in a.tags THEN "guideline"
    ELSE IF "consensus" \in a.tags THEN "consensus"
    ELSE IF "review" \in a.tags THEN "review"
    ELSE IF script # "enrich" /\ "case reports" \in a.tags THEN "case-report"
    ELSE "research"
ArticleType(script, a) ==
    LET t == TypeFromTags(script, a)
    IN  IF script = "rare" \/ t # "research" THEN t
        ELSE IF "consensus" \in a.titleWords THEN "consensus"
        ELSE IF "guideline" \in a.titleWords THEN "guideline"
        ELSE IF "review" \in a.titleWords THEN "review"
        ELSE "research"

ArticleInfo(script, p) ==
    [pmid |-> p, isPmc |-> Articles[p].isPmc, year |-> Articles[p].year,
     articleType |-> ArticleType(script, Articles[p])]

\* the `order` table of the comparator (?? 9 for a type it does not list)
TypeOrder(script, t) ==
    IF script = "enrich"
    THEN CASE t = "consensus" -> 0 [] t = "guideline" -> 1 [] t = "review" -> 2
           [] t = "research" -> 3 [] OTHER -> 9
    ELSE CASE t = "consensus" -> 0 [] t = "guideline" -> 1 [] t = "review" -> 2
           [] t = "case-report" -> 3 [] t = "research" -> 4 [] OTHER -> 9

CompareOldestFirst(script, a, b) ==
    IF a.isPmc # b.isPmc THEN (IF a.isPmc THEN -1 ELSE 1)
    ELSE IF a.articleType # b.articleType
    THEN TypeOrder(script, a.articleType) - TypeOrder(script, b.articleType)
    ELSE a.year - b.year
\* the comparator of articles.sort: < 0 puts a first
Compare(script, a, b) ==
    IF a.isPmc # b.isPmc THEN (IF a.isPmc THEN -1 ELSE 1)
    ELSE IF a.articleType # b.articleType
    THEN TypeOrder(script, a.articleType) - TypeOrder(script, b.articleType)
    ELSE b.year - a.year

\* Array.prototype.sort is stable: x goes behind everything it does not precede
RECURSIVE InsertSorted(_, _, _)
InsertSorted(script, x, sorted) ==
    IF sorted = <<>> THEN <<x>>
    ELSE IF Compare(script, x, Head(sorted)) < 0 THEN <<x>> \o sorted
    ELSE <<Head(sorted)>> \o InsertSorted(script, x, Tail(sorted))

RECURSIVE SortFrom(_, _, _)
SortFrom(script, sorted, rest) ==
    IF rest = <<>> THEN sorted
    ELSE SortFrom(script, InsertSorted(script, Head(rest), sorted), Tail(rest))

SortArticles(script, as) == SortFrom(script, <<>>, as)

Take(sq, n) == SubSeq(sq, 1, IF n < Len(sq) THEN n ELSE Len(sq))

\* const newRef = { sourceOrg, title, url, type, pmid }
NewRef(a) ==
    [pmidKind |-> "str", pmid |-> a.pmid,
     urlKind |-> IF a.isPmc THEN "pmc" ELSE "pubmed",
     urlId |-> IF a.isPmc THEN 0 ELSE a.pmid,
     type |-> a.articleType, text |-> a.pmid, extra |-> FALSE]

\* ---- Step 5: what surgicalUpdateGuidelineRefs leaves on disk ----
\* Each ref is written as sourceOrg, title, url, type and, when ref.pmid is
\* truthy, pmid: "<pmid>"; reading the file again gives these keys only,
\* with the pmid a string.
WrittenRef(r) ==
    [r EXCEPT !.pmidKind = IF r.pmidKind = "none" THEN "none" ELSE "str",
              !.extra = FALSE]
Written(rs) == [i \in 1..Len(rs) |-> WrittenRef(rs[i])]

\* One call of processDisease / processRareDisease: what it leaves on disk and
\* what it reports.  `fail` is what goes wrong during the call: nothing,
\* every search (caught inside the loop), the efetch of the details, or
\* reading the file.
ProcessDisease(script, onDisk, w, exotic, dry, fail) ==
    LET data     == Step1(script, onDisk)
        fixed    == Fixed(script, onDisk)
        existing == ExistingPmids(script, data)
        count    == Len(data)
        cap      == MaxToAdd(script, count)
        limit    == CandidateLimit(script, count)
        answers  == IF fail = "search" THEN NoResults ELSE w
        cands    == Collect(<<>>, 1, NumQueries(script, exotic), answers, existing, limit)
        nSearch  == Searches(<<>>, 1, NumQueries(script, exotic), answers, existing, limit)
        toFetch  == Take(cands, limit)
        fetched  == IF fail = "details" THEN <<>>
                    ELSE [i \in 1..Len(toFetch) |-> ArticleInfo(script, toFetch[i])]
        toAdd    == Take(SortArticles(script, fetched), cap)
        newData  == data \o [i \in 1..Len(toAdd) |-> NewRef(toAdd[i])]
        added    == Len(toAdd)
        quiet    == [disk |-> onDisk, added |-> 0, fixed |-> 0, threw |-> FALSE,
                     searches |-> 0, wrote |-> FALSE]
    IN  IF fail = "io" THEN [quiet EXCEPT !.threw = TRUE]
        ELSE IF script = "enrich"
        THEN IF SkipSearch(script, count)
             THEN [quiet EXCEPT !.fixed = fixed,
                                !.wrote = fixed > 0 /\ ~dry,
                                !.disk = IF fixed > 0 /\ ~dry THEN Written(data) ELSE onDisk]
             ELSE LET modified == fixed > 0 \/ added > 0
                  IN  [disk |-> IF modified /\ ~dry THEN Written(newData) ELSE onDisk,
                       added |-> added, fixed |-> fixed, threw |-> FALSE,
                       searches |-> nSearch, wrote |-> modified /\ ~dry]
        ELSE IF Len(cands) = 0 THEN [quiet EXCEPT !.searches = nSearch]
        ELSE IF fail = "details"
        THEN [quiet EXCEPT !.searches = nSearch, !.threw = (script = "rare")]
        ELSE [disk |-> IF added > 0 /\ ~dry THEN Written(newData) ELSE onDisk,
              added |-> added, fixed |-> 0, threw |-> FALSE,
              searches |-> nSearch, wrote |-> added > 0 /\ ~dry]

NoCall == [script |-> "", dry |-> FALSE, fail |-> "none", added |-> 0, fixed |-> 0,
           threw |-> FALSE, searches |-> 0, wrote |-> FALSE, before |-> <<>>]

InitEnrichVars ==
    /\ guidelineRefs \in InitialRefLists
    /\ guidelineRefs0 = guidelineRefs
    /\ world \in Worlds
    /\ isExotic \in BOOLEAN
    /\ nCalls = 0
    /\ last = NoCall
    /\ streak = 0

IdleEnrichVars ==
    /\ guidelineRefs = <<>>
    /\ guidelineRefs0 = <<>>
    /\ world = NoResults
    /\ isExotic = FALSE
    /\ nCalls = 0
    /\ last = NoCall
    /\ streak = 0

\* main calls processDisease for the file (inside its try/catch)
RunProcessDisease(script, dry, fail) ==
    /\ nCalls < MaxCalls
    /\ LET res == ProcessDisease(script, guidelineRefs, world, isExotic, dry, fail)
       IN  /\ guidelineRefs' = res.disk
           /\ last' = [script |-> script, dry |-> dry, fail |-> fail,
                       added |-> res.added, fixed |-> res.fixed, threw |-> res.threw,
                       searches |-> res.searches, wrote |-> res.wrote, before |-> guidelineRefs]
           /\ streak' = IF dry \/ fail # "none" THEN 0
                        ELSE IF last.script = script /\ streak > 0 THEN 2
                        ELSE 1
    /\ nCalls' = nCalls + 1
    /\ UNCHANGED <<guidelineRefs0, world, isExotic>>
    /\ UNCHANGED notEnrich

(***************************************************************************)
(* main() of the batch scripts.                                            *)
(*                                                                         *)
(*   "pubmed"    update-pubmed: one entity is one query (runQuery)         *)
(*   "ontology"  sync-ontologies: one entity is one disease                *)
(*   "links"     validate-links: one entity is one URL (checkUrl), checked *)
(*               MAX_CONCURRENT at a time                                  *)
(*   "enrich"    enrich-guidelinerefs: one entity is one disease file      *)
(*               (processDisease); it keeps no update_logs row             *)
(*                                                                         *)
(* An entity's outcome is "fail" when its processing raises (its fetch     *)
(* fails for good) or, for a URL, when checkUrl reports ok: false;         *)
(* checkUrl itself never raises.  A row of update_logs is                  *)
(* [pipeline, status, recordsAdded, recordsUpdated, error], error telling  *)
(* whether details holds {error: String(err)}.  The minDate that           *)
(* update-pubmed derives from earlier rows only narrows the searches and   *)
(* is not modelled.                                                        *)
(***************************************************************************)
MaxEntities == 3
MaxRuns == 2
MAX_CONCURRENT == 3

Pipelines == {"pubmed", "ontology", "links", "enrich"}
LoggedPipelines == {"pubmed", "ontology", "links"}
EntityResults == [ok : BOOLEAN, added : 0..1, existing : 0..1]

\* does main() wrap the processing of one entity in its own try/catch?
IsolatesEntities(p) == p = "enrich"

LogRow(p, status, added, updated, err) ==
    [pipeline |-> p, status |-> status, recordsAdded |-> added,
     recordsUpdated |-> updated, error |-> err]

\* db.insert(updateLogs).values(row).run(); stored: the database took
\* the row, otherwise run() raises and no row is written
InsertLog(logs, row, stored) == IF stored THEN Append(logs, row) ELSE logs

\* the catch block of main(): log "failed" with the error, exit(1);
\* enrich-guidelinerefs has none: main().catch() prints and exits
CatchTopLevel(p, logs, added, updated, stored) ==
    IF p \in LoggedPipelines
      THEN InsertLog(logs, LogRow(p, "failed", added,
                                  IF p = "links" THEN 0 ELSE updated, TRUE),
                     stored)
      ELSE logs
\* where main() is after its catch block: process.exit(1) follows the
\* insert; an insert that raises leaves main() by the rejection
AfterCatch(p, stored) ==
    IF p \in LoggedPipelines /\ ~stored THEN "crashed" ELSE "caught"

\* the status main() logs after its loop
FinalStatus(p, outs) ==
    IF p = "links" /\ \E i \in 1..Len(outs) : outs[i] = "fail"
      THEN "partial"
      ELSE "success"

\* the exit code after the loop: validate-links signals broken links
FinalExit(p, outs) ==
    IF p = "links" /\ \E i \in 1..Len(outs) : outs[i] = "fail" THEN 1 ELSE 0

IdleRunVars ==
    /\ pipeline = "none"
    /\ rpc = "idle"
    /\ entities = 0
    /\ outcomes = <<>>
    /\ totalAdded = 0
    /\ totalUpdated = 0
    /\ update_logs = <<>>
    /\ exitCode = -1
    /\ nRuns = 0

InitRunVars == IdleRunVars

\* main() up to the loop: counters reset, the entities loaded.  A load
\* that raises (catalog or database unreadable) goes to the catch block.
StartRun(p, n, loadOk, stored) ==
    /\ rpc \in {"idle", "done", "caught", "crashed"}
    /\ nRuns < MaxRuns
    /\ nRuns' = nRuns + 1
    /\ pipeline' = p
    /\ outcomes' = <<>>
    /\ totalAdded' = 0
    /\ totalUpdated' = 0
    /\ IF loadOk
         THEN /\ rpc' = "running"
              /\ entities' = n
              /\ exitCode' = -1
              /\ update_logs' = update_logs
         ELSE /\ rpc' = AfterCatch(p, stored)
              /\ entities' = 0
              /\ exitCode' = 1
              /\ update_logs' = CatchTopLevel(p, update_logs, 0, 0, stored)
    /\ UNCHANGED notRun

\* what an entity that raises has added to the counters before it raised:
\* sync-ontologies counts each mapping as it inserts or finds it, inside
\* the processing of the disease; update-pubmed adds result.added after
\* runQuery has returned
PartialAdded(p, e) == IF p = "ontology" THEN e.added ELSE 0
PartialUpdated(p, e) == IF p = "ontology" THEN e.existing ELSE 0

\* one iteration of the loop of update-pubmed, sync-ontologies or
\* enrich-guidelinerefs over the next entity; of an entity that raises,
\* added and existing are the mappings counted before the raise
ProcessEntity(e, stored) ==
    /\ rpc = "running"
    /\ pipeline # "links"
    /\ Len(outcomes) < entities
    /\ outcomes' = Append(outcomes, IF e.ok THEN "ok" ELSE "fail")
    /\ IF e.ok
         THEN /\ totalAdded' = totalAdded + e.added
              /\ totalUpdated' =
                    IF pipeline = "ontology" THEN totalUpdated + e.existing
                                             ELSE totalUpdated
              /\ UNCHANGED <<rpc, update_logs, exitCode>>
         ELSE IF IsolatesEntities(pipeline)
           THEN UNCHANGED <<totalAdded, totalUpdated, rpc, update_logs,
                            exitCode>>
           ELSE /\ rpc' = AfterCatch(pipeline, stored)
                /\ exitCode' = 1
                /\ totalAdded' = totalAdded + PartialAdded(pipeline, e)
                /\ totalUpdated' = totalUpdated + PartialUpdated(pipeline, e)
                /\ update_logs' =
                      CatchTopLevel(pipeline, update_logs, totalAdded',
                                    totalUpdated', stored)
    /\ UNCHANGED <<pipeline, entities, nRuns>>
    /\ UNCHANGED notRun

RECURSIVE OutcomesOf(_)
OutcomesOf(oks) ==
    IF oks = <<>> THEN <<>>
    ELSE <<IF Head(oks) THEN "ok" ELSE "fail">> \o OutcomesOf(Tail(oks))

Min(a, b) == IF a < b THEN a ELSE b

\* one iteration of the loop of validate-links: Promise.all over the next
\* MAX_CONCURRENT URLs; every result is pushed and counted
CheckBatch(oks) ==
    /\ rpc = "running"
    /\ pipeline = "links"
    /\ Len(outcomes) < entities
    /\ Len(oks) = Min(MAX_CONCURRENT, entities - Len(outcomes))
    /\ outcomes' = outcomes \o OutcomesOf(oks)
    /\ totalUpdated' = totalUpdated + Len(oks)
    /\ UNCHANGED <<pipeline, rpc, entities, totalAdded, update_logs,
                   exitCode, nRuns>>
    /\ UNCHANGED notRun

\* main() after the loop: the insert into update_logs, then the process
\* ends.  The insert is inside the try block: when it raises (stored is
\* FALSE) the catch block runs and inserts a failed row under the same
\* id, which may raise as well (storedInCatch is FALSE)
Finalize(stored, storedInCatch) ==
    /\ rpc = "running"
    /\ Len(outcomes) = entities
    /\ IF pipeline \in LoggedPipelines /\ ~stored
         THEN /\ rpc' = AfterCatch(pipeline, storedInCatch)
              /\ update_logs' = CatchTopLevel(pipeline, update_logs, totalAdded,
                                              totalUpdated, storedInCatch)
              /\ exitCode' = 1
         ELSE /\ rpc' = "done"
              /\ update_logs' =
                    IF pipeline \in LoggedPipelines
                      THEN InsertLog(update_logs,
                                     LogRow(pipeline, FinalStatus(pipeline, outcomes),
                                            totalAdded, totalUpdated, FALSE),
                                     stored)
                      ELSE update_logs
              /\ exitCode' = FinalExit(pipeline, outcomes)
    /\ UNCHANGED <<pipeline, entities, outcomes, totalAdded, totalUpdated,
                   nRuns>>
    /\ UNCHANGED notRun

(***************************************************************************)
(* main() of deep-literature-scan ("deep"), rare-knowledge-rescue ("rare") *)
(* and enrich-guidelinerefs ("enrich"): selection of the batch, the loop   *)
(* over it, the checkpoint (deep and rare only).                           *)
(*                                                                         *)
(* A disease file is [slug, guidelineRefs, isExotic, isRare]; slugs are    *)
(* 1, 2, 3 in file-name order.  In pipeline-state.json a slug of 0 stands  *)
(* for a key that is not set.  The provider's answers are `world`.         *)
(***************************************************************************)
MaxBatches == 2
BATCH_SIZE == 10

Slugs == 1..3
BatchScripts == {"deep", "rare"}
BatchSizes == {1, 2}
\* --batch N of enrich-guidelinerefs; -1: the flag is not given
BatchArgs == {-1, 0, 1}
BatchFailures == {"none", "details"}

Disease(s, rs, exotic, rare) ==
    [slug |-> s, guidelineRefs |-> rs, isExotic |-> exotic, isRare |-> rare]

OneRef(p) == << AuthoredRef("str", p, "pubmed", p, FALSE) >>

Catalogs ==
    { << Disease(1, <<>>, FALSE, FALSE), Disease(2, OneRef(1), FALSE, FALSE),
         Disease(3, <<>>, FALSE, TRUE) >>,
      << Disease(1, OneRef(1), TRUE, FALSE), Disease(2, <<>>, FALSE, FALSE),
         Disease(3, <<>>, FALSE, TRUE) >>,
      << Disease(1, <<>>, FALSE, FALSE), Disease(2, <<>>, FALSE, FALSE),
         Disease(3, <<>>, FALSE, FALSE) >>,
      << Disease(1, OneRef(1) \o OneRef(4), FALSE, FALSE),
         Disease(2, <<>>, FALSE, FALSE), Disease(3, OneRef(5), FALSE, TRUE) >> }

\* the entry main() pushes for a file
Descriptor(d) ==
    [slug |-> d.slug, refCount |-> Len(d.guidelineRefs),
     isExotic |-> d.isExotic, isRare |-> d.isRare]

\* deep: refs.length < 2 || slugArg
\* rare: isExotic || isRare || refs.length < 1 || slugArg
Eligible(script, d, slugArg) ==
    IF script = "deep" THEN Len(d.guidelineRefs) < 2 \/ slugArg # 0
    ELSE d.isExotic \/ d.isRare \/ Len(d.guidelineRefs) < 1 \/ slugArg # 0

\* the files main() looks at: all of them, or the one named by --slug
RECURSIVE Pushed(_, _, _)
Pushed(script, files, slugArg) ==
    IF files = <<>> THEN <<>>
    ELSE LET d == Head(files)
         IN  (IF (slugArg = 0 \/ d.slug = slugArg) /\ Eligible(script, d, slugArg)
              THEN <<Descriptor(d)>> ELSE <<>>)
               \o Pushed(script, Tail(files), slugArg)

\* the comparator of candidates.sort (rare): fewer refs, exotic, rare first
CompareNeed(a, b) ==
    IF a.refCount # b.refCount THEN a.refCount - b.refCount
    ELSE IF a.isExotic # b.isExotic THEN (IF a.isExotic THEN -1 ELSE 1)
    ELSE IF a.isRare # b.isRare THEN (IF a.isRare THEN -1 ELSE 1)
    ELSE 0

RECURSIVE InsertByNeed(_, _)
InsertByNeed(x, sorted) ==
    IF sorted = <<>> THEN <<x>>
    ELSE IF CompareNeed(x, Head(sorted)) < 0 THEN <<x>> \o sorted
    ELSE <<Head(sorted)>> \o InsertByNeed(x, Tail(sorted))

RECURSIVE SortByNeedFrom(_, _)
SortByNeedFrom(sorted, rest) ==
    IF rest = <<>> THEN sorted
    ELSE SortByNeedFrom(InsertByNeed(Head(rest), sorted), Tail(rest))

\* needsEnrichment (deep, in file order) / candidates (rare, sorted)
Candidates(script, files, slugArg) ==
    IF script = "deep" THEN Pushed(script, files, slugArg)
    ELSE SortByNeedFrom(<<>>, Pushed(script, files, slugArg))

\* cands.findIndex(d => d.slug === lastSlug) + 1 (0: not found)
FindIndex(cands, lastSlug) ==
    IF \E i \in 1..Len(cands) : cands[i].slug = lastSlug
    THEN CHOOSE i \in 1..Len(cands) :
            /\ cands[i].slug = lastSlug
            /\ \A h \in 1..(i - 1) : cands[h].slug # lastSlug
    ELSE 0

LastSlugOf(script, st) ==
    IF script = "deep" THEN st.lastLiteratureScanSlug ELSE st.lastRareRescueSlug

\* the number of leading candidates skipped (the code's startIdx)
ResumeIdx(script, cands, auto, st) ==
    IF auto /\ LastSlugOf(script, st) # 0
    THEN FindIndex(cands, LastSlugOf(script, st))
    ELSE 0

\* cands.slice(startIdx, startIdx + maxArg)
Slice(cands, startIdx, max) ==
    SubSeq(cands, startIdx + 1,
           IF startIdx + max < Len(cands) THEN startIdx + max ELSE Len(cands))

SelectBatch(script, files, slugArg, auto, max, st) ==
    LET cands == Candidates(script, files, slugArg)
    IN  Slice(cands, ResumeIdx(script, cands, auto, st), max)

\* state.last...Slug = last slug; state.totalRefsAdded += totalAdded
SaveStateNoTotal(script, st, batch, total) ==
    IF script = "deep"
    THEN [st EXCEPT !.lastLiteratureScanSlug = batch[Len(batch)].slug]
    ELSE [st EXCEPT !.lastRareRescueSlug = batch[Len(batch)].slug]
SaveState(script, st, batch, total) ==
    IF script = "deep"
    THEN [st EXCEPT !.lastLiteratureScanSlug = batch[Len(batch)].slug,
                    !.totalRefsAdded = st.totalRefsAdded + total]
    ELSE [st EXCEPT !.lastRareRescueSlug = batch[Len(batch)].slug,
                    !.totalRefsAdded = st.totalRefsAdded + total]

\* if (!dryRun && toProcess.length > 0); enrich-guidelinerefs has no state file
WritesCheckpointAlways(script, dry, batch) ==
    script \in BatchScripts /\ Len(batch) > 0
WritesCheckpoint(script, dry, batch) ==
    script \in BatchScripts /\ ~dry /\ Len(batch) > 0

\* enrich-guidelinerefs: the file named by --slug, else the slice --batch N
\* selects, else every file
SelectFiles(files, slugArg, batchArg) ==
    LET all == [i \in 1..Len(files) |-> Descriptor(files[i])]
    IN  IF slugArg # 0 THEN SelectSeq(all, LAMBDA d : d.slug = slugArg)
        ELSE IF batchArg >= 0 THEN Slice(all, batchArg * BATCH_SIZE, BATCH_SIZE)
        ELSE all

NoArgs ==
    [script |-> "", dry |-> FALSE, auto |-> FALSE, max |-> 0, slug |-> 0,
     batch |-> -1]
NoState ==
    [lastLiteratureScanSlug |-> 0, lastRareRescueSlug |-> 0, totalRefsAdded |-> 0]

IdleBatchVars ==
    /\ catalog = <<>>
    /\ stateFile = NoState
    /\ bargs = NoArgs
    /\ bpc = "idle"
    /\ toProcess = <<>>
    /\ bdone = 0
    /\ btotal = 0
    /\ ckptBatch = [sc \in BatchScripts |-> {}]
    /\ nBatches = 0

InitBatchVars ==
    /\ catalog \in Catalogs
    /\ stateFile = NoState
    /\ bargs = NoArgs
    /\ bpc = "idle"
    /\ toProcess = <<>>
    /\ bdone = 0
    /\ btotal = 0
    /\ ckptBatch = [sc \in BatchScripts |-> {}]
    /\ nBatches = 0

\* the provider is there; no single-file run is under way
BatchEnrichVars ==
    /\ guidelineRefs = <<>>
    /\ guidelineRefs0 = <<>>
    /\ world \in Worlds
    /\ isExotic = FALSE
    /\ nCalls = 0
    /\ last = NoCall
    /\ streak = 0

\* main() up to its loop
StartBatch(script, dry, auto, max, slugArg) ==
    /\ bpc \in {"idle", "done"}
    /\ nBatches < MaxBatches
    /\ nBatches' = nBatches + 1
    /\ bargs' = [script |-> script, dry |-> dry, auto |-> auto, max |-> max,
                 slug |-> slugArg, batch |-> -1]
    /\ toProcess' = SelectBatch(script, catalog, slugArg, auto, max, stateFile)
    /\ bdone' = 0
    /\ btotal' = 0
    /\ bpc' = "running"
    /\ UNCHANGED <<catalog, stateFile, ckptBatch>>
    /\ UNCHANGED notBatch

\* main() of enrich-guidelinerefs up to its loop
StartEnrich(dry, slugArg, batchArg) ==
    /\ bpc \in {"idle", "done"}
    /\ nBatches < MaxBatches
    /\ nBatches' = nBatches + 1
    /\ bargs' = [script |-> "enrich", dry |-> dry, auto |-> FALSE, max |-> 0,
                 slug |-> slugArg, batch |-> batchArg]
    /\ toProcess' = SelectFiles(catalog, slugArg, batchArg)
    /\ bdone' = 0
    /\ btotal' = 0
    /\ bpc' = "running"
    /\ UNCHANGED <<catalog, stateFile, ckptBatch>>
    /\ UNCHANGED notBatch

\* one iteration of the loop: processDisease / processRareDisease inside
\* try/catch; a call that throws adds nothing to totalAdded
ProcessNext(fail) ==
    /\ bpc = "running"
    /\ bdone < Len(toProcess)
    /\ LET d   == toProcess[bdone + 1]
           res == ProcessDisease(bargs.script, catalog[d.slug].guidelineRefs,
                                 world, d.isExotic, bargs.dry, fail)
       IN  /\ catalog' = [catalog EXCEPT ![d.slug].guidelineRefs = res.disk]
           /\ btotal' = btotal + (IF res.threw THEN 0 ELSE res.added)
    /\ bdone' = bdone + 1
    /\ UNCHANGED <<stateFile, bargs, bpc, toProcess, ckptBatch, nBatches>>
    /\ UNCHANGED notBatch

\* main() after its loop: the checkpoint, then the process ends
EndBatch ==
    /\ bpc = "running"
    /\ bdone = Len(toProcess)
    /\ bpc' = "done"
    /\ IF WritesCheckpoint(bargs.script, bargs.dry, toProcess)
         THEN /\ stateFile' = SaveState(bargs.script, stateFile, toProcess, btotal)
              /\ ckptBatch' =
                    [ckptBatch EXCEPT ![bargs.script] =
                        {toProcess[i].slug : i \in 1..Len(toProcess)}]
         ELSE UNCHANGED <<stateFile, ckptBatch>>
    /\ UNCHANGED <<catalog, bargs, toProcess, bdone, btotal, nBatches>>
    /\ UNCHANGED notBatch

(***************************************************************************)
(* The entity resolvers.                                                   *)
(*                                                                         *)
(* deduplicate-diseases: isDuplicate(candidateName, existing, slugSet)     *)
(* decides whether a curated candidate name is already in the catalog.     *)
(* match-book-vetpro: the matching loop maps each BOOK disease onto a      *)
(* catalog disease.  A string is the sequence of its characters; a score   *)
(* is the fraction [num, den] the code computes as a float.                *)
(***************************************************************************)
MaxResolved == 2

LowerChars ==
    {"a", "b", "c", "d", "e", "f", "g", "h", "i", "j", "k", "l", "m", "n",
     "o", "p", "q", "r", "s", "t", "u", "v", "w", "x", "y", "z"}
Digits == {"0", "1", "2", "3", "4", "5", "6", "7", "8", "9"}
UpperChars ==
    {"A", "B", "C", "D", "E", "F", "G", "H", "I", "J", "K", "L", "M", "N",
     "O", "P", "Q", "R", "S", "T", "U", "V", "W", "X", "Y", "Z"}
Chars == LowerChars \cup Digits \cup UpperChars \cup {" ", "-", "_", "'", "(", ")"}
Alnum == LowerChars \cup Digits
\* [^a-z0-9]
NonAlnum == Chars \ Alnum

LowerOf(c) ==
    CASE c = "A" -> "a" [] c = "B" -> "b" [] c = "C" -> "c" [] c = "D" -> "d"
      [] c = "E" -> "e" [] c = "F" -> "f" [] c = "G" -> "g" [] c = "H" -> "h"
      [] c = "I" -> "i" [] c = "J" -> "j" [] c = "K" -> "k" [] c = "L" -> "l"
      [] c = "M" -> "m" [] c = "N" -> "n" [] c = "O" -> "o" [] c = "P" -> "p"
      [] c = "Q" -> "q" [] c = "R" -> "r" [] c = "S" -> "s" [] c = "T" -> "t"
      [] c = "U" -> "u" [] c = "V" -> "v" [] c = "W" -> "w" [] c = "X" -> "x"
      [] c = "Y" -> "y" [] c = "Z" -> "z"
      [] OTHER -> c
toLowerCase(s) == [i \in 1..Len(s) |-> LowerOf(s[i])]

\* s.replace(/[cs]/g, "")
Remove(s, cs) == SelectSeq(s, LAMBDA c : c \notin cs)
\* s.replace(/[cs]/g, r)
ReplaceEach(s, cs, r) == [i \in 1..Len(s) |-> IF s[i] \in cs THEN r ELSE s[i]]

RECURSIVE DropWhile(_, _)
DropWhile(s, cs) ==
    IF s # <<>> /\ Head(s) \in cs THEN DropWhile(Tail(s), cs) ELSE s

\* s.replace(/[cs]+/g, r)
RECURSIVE ReplaceRuns(_, _, _)
ReplaceRuns(s, cs, r) ==
    IF s = <<>> THEN <<>>
    ELSE IF Head(s) \in cs THEN <<r>> \o ReplaceRuns(DropWhile(Tail(s), cs), cs, r)
    ELSE <<Head(s)>> \o ReplaceRuns(Tail(s), cs, r)

RECURSIVE TrimRight(_)
TrimRight(s) ==
    IF s # <<>> /\ s[Len(s)] = " " THEN TrimRight(SubSeq(s, 1, Len(s) - 1)) ELSE s
\* s.trim()
trim(s) == TrimRight(DropWhile(s, {" "}))

\* s.replace(/^-|-$/g, "")
StripEnds(s) ==
    LET a == IF s # <<>> /\ Head(s) = "-" THEN Tail(s) ELSE s
    IN  IF a # <<>> /\ a[Len(a)] = "-" THEN SubSeq(a, 1, Len(a) - 1) ELSE a

\* deduplicate-diseases: normalize(name)
normalize(name) ==
    trim(ReplaceRuns(ReplaceEach(Remove(toLowerCase(name), {"'"}), {"-", "_"}, " "),
                     {" "}, " "))

\* deduplicate-diseases: nameToSlug(name)
nameToSlug(name) ==
    ReplaceRuns(StripEnds(ReplaceRuns(Remove(toLowerCase(name), {"'"}), NonAlnum, "-")),
                {"-"}, "-")

\* match-book-vetpro: slugify(text)
slugify(text) ==
    StripEnds(ReplaceRuns(Remove(toLowerCase(text), {"(", ")", "'"}), NonAlnum, "-"))

\* for (i = 0; i < s.length - 1; i++) add(s.substring(i, i + 2))
BigramsOf(s) == { <<s[i], s[i + 1]>> : i \in 1..(Len(s) - 1) }

\* deduplicate-diseases: bigrams(str), what is not alphanumeric becomes a
\* space and stays in the string
bigrams(str) == BigramsOf(trim(ReplaceEach(toLowerCase(str), NonAlnum, " ")))

\* match-book-vetpro: getBigrams(str), what is not alphanumeric is removed
getBigrams(str) == BigramsOf(Remove(toLowerCase(str), NonAlnum))

Score(n, d) == [num |-> n, den |-> d]
ScoreGt(x, y) == x.num * y.den > y.num * x.den
ScoreGe(x, y) == x.num * y.den >= y.num * x.den
ScoreIs(x, n, d) == x.num * d = n * x.den

\* deduplicate-diseases: similarity(a, b)
similarity(a, b) ==
    LET aGrams == bigrams(a)
        bGrams == bigrams(b)
    IN  IF aGrams = {} \/ bGrams = {} THEN Score(0, 1)
        ELSE Score(2 * Cardinality(aGrams \cap bGrams),
                   Cardinality(aGrams) + Cardinality(bGrams))

\* match-book-vetpro: diceCoefficient(a, b) of two bigram sets
diceCoefficientSum(a, b) ==
    IF a = {} /\ b = {} THEN Score(1, 1)
    ELSE IF a = {} \/ b = {} THEN Score(0, 1)
    ELSE Score(Cardinality(a \cap b), Cardinality(a) + Cardinality(b))
diceCoefficient(a, b) ==
    IF a = {} /\ b = {} THEN Score(1, 1)
    ELSE IF a = {} \/ b = {} THEN Score(0, 1)
    ELSE Score(2 * Cardinality(a \cap b), Cardinality(a) + Cardinality(b))

\* the acceptance thresholds: score > 0.85, bestScore >= 0.7, lenRatio > 0.7
DUP_THRESHOLD == Score(85, 100)
DICE_THRESHOLD == Score(7, 10)
LEN_RATIO == Score(7, 10)

\* ---- deduplicate-diseases ----
\* file.replace(".yaml", ""): the first occurrence of the pattern is removed
YamlExt == <<".", "y", "a", "m", "l">>
RemoveFirst(s, pat) ==
    LET at == { i \in 1..(Len(s) - Len(pat) + 1) : SubSeq(s, i, i + Len(pat) - 1) = pat }
    IN  IF at = {} THEN s
        ELSE LET i == CHOOSE i \in at : \A j \in at : i <= j
             IN  SubSeq(s, 1, i - 1) \o SubSeq(s, i + Len(pat), Len(s))
\* typeof a === "string" ? a : a.alias || ""
AliasText(a) == a.alias
\* loadExistingDiseases: one ExistingDisease per file; a file without a
\* slug goes by its file name
ExistingDisease(d) ==
    [slug |-> IF d.slug # <<>> THEN d.slug ELSE RemoveFirst(d.file, YamlExt),
     nameEn |-> d.nameEn, nameEnNorm |-> normalize(d.nameEn),
     aliases |-> [i \in 1..Len(d.aliases) |-> normalize(AliasText(d.aliases[i]))]]
loadExistingDiseases(files) == [i \in 1..Len(files) |-> ExistingDisease(files[i])]

\* e.nameEnNorm.includes(norm)
Includes(s, part) ==
    \E i \in 0..(Len(s) - Len(part)) : SubSeq(s, i + 1, i + Len(part)) = part

\* what isDuplicate returns; `via` names the return statement taken
Dup(slug, score, via) ==
    [isDup |-> TRUE, matchedSlug |-> slug, matchScore |-> score, via |-> via]
NotDup == [isDup |-> FALSE, matchedSlug |-> <<>>, matchScore |-> Score(0, 1), via |-> "none"]

\* Math.min(a, b) / Math.max(a, b) of the two lengths
LenRatio(a, b) ==
    IF Len(a) < Len(b) THEN Score(Len(a), Len(b)) ELSE Score(Len(b), Len(a))

\* one pass of `for (const e of existing)` from entity i on: the tests of
\* one entity (name, alias, fuzzy, containment) come before any test of the
\* next entity
RECURSIVE ScanExisting(_, _, _)
ScanExisting(norm, existing, i) ==
    IF i > Len(existing) THEN NotDup
    ELSE LET e     == existing[i]
             score == similarity(norm, e.nameEnNorm)
         IN  IF norm = e.nameEnNorm THEN Dup(e.slug, Score(1, 1), "name")
             ELSE IF InSeq(norm, e.aliases) THEN Dup(e.slug, Score(1, 1), "alias")
             ELSE IF ScoreGt(score, DUP_THRESHOLD) THEN Dup(e.slug, score, "fuzzy")
             ELSE IF /\ Len(norm) > 5 /\ Len(e.nameEnNorm) > 5
                     /\ \/ norm = e.nameEnNorm
                        \/ Includes(e.nameEnNorm, norm)
                        \/ Includes(norm, e.nameEnNorm)
                     /\ ScoreGt(LenRatio(norm, e.nameEnNorm), LEN_RATIO)
             THEN Dup(e.slug, LenRatio(norm, e.nameEnNorm), "contains")
             ELSE ScanExisting(norm, existing, i + 1)

isDuplicate(candidateName, existing, slugSet) ==
    LET norm == normalize(candidateName)
        slug == nameToSlug(candidateName)
    IN  IF slug \in slugSet THEN Dup(slug, Score(1, 1), "slug")
        ELSE ScanExisting(norm, existing, 1)

\* ---- match-book-vetpro ----
\* if (!d?.slug) continue
LoadVetpro(files) == SelectSeq(files, LAMBDA d : d.slug # <<>>)

\* Map.get(key): a later set() of the same key replaces the earlier one
LastIndex(S) == IF S = {} THEN 0 ELSE CHOOSE i \in S : \A j \in S : j <= i
vetproBySlug(ds, key) == LastIndex({ i \in 1..Len(ds) : ds[i].slug = key })
\* the keys one disease sets in vetproByEnLower: its name and its aliases
\* that are strings (typeof alias === "string")
EnLowerKeys(d) ==
    (IF d.nameEn # <<>> THEN {toLowerCase(d.nameEn)} ELSE {})
        \cup { toLowerCase(d.aliases[i].alias) :
                 i \in { k \in 1..Len(d.aliases) : ~d.aliases[k].obj } }
vetproByEnLower(ds, key) == LastIndex({ i \in 1..Len(ds) : key \in EnLowerKeys(ds[i]) })
vetproByZh(ds, key) ==
    LastIndex({ i \in 1..Len(ds) : ds[i].nameZh # "" /\ ds[i].nameZh = key })

\* Layer 2c: the first synonym that is a name or alias of a disease or,
\* slugified, the slug of one
RECURSIVE SynonymMatch(_, _)
SynonymMatch(synonyms, ds) ==
    IF synonyms = <<>> THEN 0
    ELSE LET syn == Head(synonyms)
         IN  IF vetproByEnLower(ds, toLowerCase(syn)) # 0
             THEN vetproByEnLower(ds, toLowerCase(syn))
             ELSE IF vetproBySlug(ds, slugify(syn)) # 0
             THEN vetproBySlug(ds, slugify(syn))
             ELSE SynonymMatch(Tail(synonyms), ds)

\* Layer 3: the loop over the diseases not matched yet; best is
\* [score, idx], idx = 0 for bestMatch = null
RECURSIVE BestDice(_, _, _, _, _)
BestDice(ds, i, done, info, best) ==
    IF i > Len(ds) THEN best
    ELSE IF ds[i].slug \in done THEN BestDice(ds, i + 1, done, info, best)
    ELSE LET score     == diceCoefficient(getBigrams(info.slug), getBigrams(ds[i].slug))
             nameScore == diceCoefficient(getBigrams(toLowerCase(info.en)),
                                          getBigrams(toLowerCase(ds[i].nameEn)))
             b1 == IF ScoreGt(score, best.score)
                   THEN [score |-> score, idx |-> i] ELSE best
             b2 == IF ScoreGt(nameScore, b1.score)
                   THEN [score |-> nameScore, idx |-> i] ELSE b1
         IN  BestDice(ds, i + 1, done, info, b2)

\* the k with 2^-k <= n/d < 2^-(k-1), for 0 < n/d (0 when n/d >= 1)
RECURSIVE BinaryPlaces(_, _)
BinaryPlaces(n, d) == IF n >= d THEN 0 ELSE 1 + BinaryPlaces(2 * n, d)
\* b^n modulo q
RECURSIVE PowMod(_, _, _)
PowMod(b, n, q) == IF n = 0 THEN 1 % q ELSE (b * PowMod(b, n - 1, q)) % q

\* parseFloat(bestScore.toFixed(3)), in thousandths.  bestScore is the
\* double nearest to the quotient x, and toFixed rounds the exact value of
\* that double, the larger digit on a tie.  The double differs from x by
\* far less than x differs from any other tie, so the digits are those of
\* x rounded half up unless 1000 x = h - 1/2 exactly.  Then x = m / (16 q)
\* in lowest terms with q a power of 5 (q | 125); with 53 significant bits
\* the double is below x, and toFixed rounds down, exactly when the
\* remainder r of m 2^(e-4) modulo q has 0 < 2 r < q, e = 52 + the binary
\* places of x (q = 1: the double is x itself and the tie rounds up).
ToFixed3(x) ==
    LET h   == (2000 * x.num + x.den) \div (2 * x.den)
        tie == (2000 * x.num) % (2 * x.den) = x.den
        odd == 2 * h - 1
        g   == IF odd % 125 = 0 THEN 125
               ELSE IF odd % 25 = 0 THEN 25
               ELSE IF odd % 5 = 0 THEN 5 ELSE 1
        q   == 125 \div g
        e   == 52 + BinaryPlaces(x.num, x.den)
        r   == ((odd \div g) * PowMod(2, e - 4, q)) % q
    IN  IF tie /\ r # 0 /\ 2 * r < q
        THEN Score(h - 1, 1000)
        ELSE Score(h, 1000)

MatchResult(info, ds, idx, method, score) ==
    [bookSlug |-> info.slug,
     vetproSlug |-> IF idx = 0 THEN <<>> ELSE ds[idx].slug,
     matchMethod |-> method, diceScore |-> score]

\* bestScore >= 0.7
AcceptsDice(bestScore) == ScoreGe(bestScore, DICE_THRESHOLD)

\* one iteration of `for (const bookSlug of bookSlugs)`
MatchOne(info, ds, done) ==
    LET bySlug == vetproBySlug(ds, info.slug)
        byEn   == vetproByEnLower(ds, toLowerCase(info.en))
        byZh   == IF info.zh # "" THEN vetproByZh(ds, info.zh) ELSE 0
        bySyn  == SynonymMatch(info.synonyms, ds)
        best   == BestDice(ds, 1, done, info, [score |-> Score(0, 1), idx |-> 0])
    IN  IF bySlug # 0 THEN MatchResult(info, ds, bySlug, "slug", Score(1, 1))
        ELSE IF byEn # 0 THEN MatchResult(info, ds, byEn, "name-exact", Score(1, 1))
        ELSE IF byZh # 0 THEN MatchResult(info, ds, byZh, "name-zh", Score(1, 1))
        ELSE IF bySyn # 0 THEN MatchResult(info, ds, bySyn, "synonym", Score(95, 100))
        ELSE IF AcceptsDice(best.score) /\ best.idx # 0
        THEN MatchResult(info, ds, best.idx, "dice", ToFixed3(best.score))
        ELSE MatchResult(info, ds, 0, "none", Score(0, 1))

\* ---- the data of the model ----
\* the files of data/diseases: [file, slug, nameEn, nameZh, aliases]; an
\* alias is written as a string (obj FALSE) or as {alias, language} (obj
\* TRUE), a missing slug or name is <<>>
YamlFile(stem) == stem \o YamlExt
StringAlias(text) == [obj |-> FALSE, alias |-> text]
ObjectAlias(text) == [obj |-> TRUE, alias |-> text]
DCat ==
    [file |-> YamlFile(<<"c", "a", "t">>), slug |-> <<"c", "a", "t">>, nameEn |-> <<"C", "a", "t">>,
     nameZh |-> "zh-cat", aliases |-> <<>>]
DDemodex ==
    [file |-> YamlFile(<<"d", "e", "m", "o", "d", "e", "x">>), slug |-> <<"d", "e", "m", "o", "d", "e", "x">>, nameEn |-> <<"M", "a", "n", "g">>,
     nameZh |-> "zh-demodex", aliases |-> <<>>]
DDermatophytosis ==
    [file |-> YamlFile(<<"d", "e", "r", "m", "a", "t", "o", "p", "h", "y", "t", "o", "s", "i", "s">>), slug |-> <<"d", "e", "r", "m", "a", "t", "o", "p", "h", "y", "t", "o", "s", "i", "s">>, nameEn |-> <<"D", "e", "r", "m", "a", "t", "o", "p", "h", "y", "t", "o", "s", "i", "s">>,
     nameZh |-> "zh-derm", aliases |-> <<>>]
DMites ==
    [file |-> YamlFile(<<"m", "i", "t", "e", "s">>), slug |-> <<"m", "i", "t", "e", "s">>, nameEn |-> <<"M", "i", "t", "e", " ", "D", "i", "s", "e", "a", "s", "e">>,
     nameZh |-> "zh-mites", aliases |-> <<StringAlias(<<"M", "a", "n", "g", "e">>)>>]
\* the same disease with its alias written as {alias: Mange, language: en}
DMitesObj == [DMites EXCEPT !.aliases = <<ObjectAlias(<<"M", "a", "n", "g", "e">>)>>]
\* a file without slug
DNoSlug ==
    [file |-> YamlFile(<<"0", "1", "-", "n", "o", "s", "l", "u", "g">>), slug |-> <<>>, nameEn |-> <<"N", "o", " ", "S", "l", "u", "g">>,
     nameZh |-> "", aliases |-> <<>>]
DOtitis ==
    [file |-> YamlFile(<<"o", "t", "i", "t", "i", "s">>), slug |-> <<"o", "t", "i", "t", "i", "s">>, nameEn |-> <<"O", "t", "i", "t", "i", "s">>,
     nameZh |-> "", aliases |-> <<>>]
DScabies ==
    [file |-> YamlFile(<<"s", "c", "a", "b", "i", "e", "s">>), slug |-> <<"s", "c", "a", "b", "i", "e", "s">>, nameEn |-> <<"M", "a", "n", "g", "e", "s">>,
     nameZh |-> "zh-scabies", aliases |-> <<>>]

\* catalogs, each in file-name order
VetproCatalogs ==
    { <<DCat, DDemodex, DDermatophytosis, DMites, DOtitis, DScabies>>,
      <<DNoSlug, DCat, DDemodex, DDermatophytosis, DOtitis, DScabies>>,
      <<DCat, DDermatophytosis, DMitesObj, DOtitis>> }

\* curated candidate names of deduplicate-diseases
CandidateNames ==
    { <<"M", "a", "n", "g", "e">>,
      <<"C", "a", "t", "s">>,
      <<"O", "t", "i", "t", "i", "s", " ", "A">>,
      <<"C", "a", "t">>,
      <<"M", "i", "t", "e", "-", "D", "i", "s", "e", "a", "s", "e">>,
      <<"R", "a", "b", "i", "e", "s">>,
      <<"r", "a", "b", "i", "e", "s">>,
      <<"N", "o", " ", "S", "l", "u", "g">>,
      <<"0", "1", " ", "n", "o", "s", "l", "u", "g">> }

\* entries of disease-info.json: [slug, en, zh, synonyms]
BookEntries ==
    { [slug |-> <<"m", "a", "n", "g", "e">>, en |-> <<"M", "a", "n", "g", "e">>,
     zh |-> "", synonyms |-> <<>>],
      [slug |-> <<"c", "a", "t", "s">>, en |-> <<"C", "a", "t", "s">>,
     zh |-> "", synonyms |-> <<>>],
      [slug |-> <<"d", "e", "r", "m", "a", "t", "o", "p">>, en |-> <<"D", "e", "r", "m", "a", "t", "o", "p">>,
     zh |-> "", synonyms |-> <<>>],
      [slug |-> <<"r", "i", "n", "g", "w", "o", "r", "m">>, en |-> <<"R", "i", "n", "g", "w", "o", "r", "m">>,
     zh |-> "", synonyms |-> <<<<"D", "e", "r", "m", "a", "t", "o", "p", "h", "y", "t", "o", "s", "i", "s">>>>],
      [slug |-> <<"f", "e", "l", "i", "n", "e">>, en |-> <<"F", "e", "l", "i", "n", "e">>,
     zh |-> "zh-cat", synonyms |-> <<>>],
      [slug |-> <<"c", "a", "t">>, en |-> <<"T", "h", "e", " ", "C", "a", "t">>,
     zh |-> "", synonyms |-> <<>>],
      [slug |-> <<"r", "a", "b", "i", "e", "s">>, en |-> <<"R", "a", "b", "i", "e", "s">>,
     zh |-> "", synonyms |-> <<>>] }

\* names whose similarity is computed
ScoredNames ==
    { <<"c", "a", "t">>,
      <<"c", "a", "t", "s">>,
      <<"a", " ", "b">>,
      <<"a", "b">>,
      <<"d", "e", "r", "m", "a", "t", "o", "p">>,
      <<"d", "e", "r", "m", "a", "t", "o", "p", "h", "y", "t", "o", "s", "i", "s">>,
      <<"a">> }

IdleResolveVars ==
    /\ vetpro = <<>>
    /\ scored = <<>>
    /\ decisions = <<>>
    /\ newSlugs = {}
    /\ results = <<>>
    /\ matched = {}

InitResolveVars ==
    /\ vetpro \in VetproCatalogs
    /\ scored = <<>>
    /\ decisions = <<>>
    /\ newSlugs = {}
    /\ results = <<>>
    /\ matched = {}

Resolved == Len(scored) + Len(decisions) + Len(results)

\* both Dice implementations applied to a pair of names
ScoreNames(a, b) ==
    /\ Resolved < MaxResolved
    /\ scored' = Append(scored,
                    [a |-> a, b |-> b, similarity |-> similarity(a, b),
                     dice |-> diceCoefficient(getBigrams(a), getBigrams(b))])
    /\ UNCHANGED <<vetpro, decisions, newSlugs, results, matched>>
    /\ UNCHANGED notResolve

\* deduplicate-diseases, one iteration of main()'s loop over the curated
\* names: a slug already accepted in this run is skipped, otherwise
\* isDuplicate decides
CheckCandidate(name) ==
    /\ Resolved < MaxResolved
    /\ LET slug     == nameToSlug(name)
           existing == loadExistingDiseases(vetpro)
           slugSet  == { existing[i].slug : i \in 1..Len(existing) }
           res      == isDuplicate(name, existing, slugSet)
       IN  IF slug \in newSlugs
           THEN /\ decisions' = Append(decisions, [name |-> name, skipped |-> TRUE, res |-> NotDup])
                /\ UNCHANGED newSlugs
           ELSE /\ decisions' = Append(decisions, [name |-> name, skipped |-> FALSE, res |-> res])
                /\ newSlugs' = IF res.isDup THEN newSlugs ELSE newSlugs \cup {slug}
    /\ UNCHANGED <<vetpro, scored, results, matched>>
    /\ UNCHANGED notResolve

\* match-book-vetpro, one iteration of the matching loop (the keys of
\* disease-info.json are distinct)
MatchBook(info) ==
    /\ Resolved < MaxResolved
    /\ \A i \in 1..Len(results) : results[i].bookSlug # info.slug
    /\ LET res == MatchOne(info, LoadVetpro(vetpro), matched)
       IN  /\ results' = Append(results, res)
           /\ matched' = IF res.vetproSlug # <<>> THEN matched \cup {res.vetproSlug}
                         ELSE matched
    /\ UNCHANGED <<vetpro, scored, decisions, newSlugs>>
    /\ UNCHANGED notResolve

(***************************************************************************)
(* Specifications                                                          *)
(***************************************************************************)
InitFetch ==
    /\ InitFetchVars /\ IdleFileVars /\ IdleEnrichVars /\ IdleRunVars
    /\ IdleBatchVars /\ IdleResolveVars /\ IdleExtraVars
NextFetch == \E r \in Responses : FetchAttempt(r)
SpecFetch == InitFetch /\ [][NextFetch]_vars

InitFile ==
    /\ InitFileVars /\ InitFetchVars /\ IdleEnrichVars /\ IdleRunVars
    /\ IdleBatchVars /\ IdleResolveVars /\ IdleExtraVars
NextFile == \E rs \in RefArgs : SurgicalUpdate(rs)
SpecFile == InitFile /\ [][NextFile]_vars

Init ==
    /\ InitEnrichVars /\ InitFetchVars /\ IdleFileVars /\ IdleRunVars
    /\ IdleBatchVars /\ IdleResolveVars /\ IdleExtraVars
Next ==
    \E script \in Scripts, dry \in BOOLEAN, fail \in Failures :
        RunProcessDisease(script, dry, fail)
Spec == Init /\ [][Next]_vars

InitRun ==
    /\ InitRunVars /\ InitFetchVars /\ IdleFileVars /\ IdleEnrichVars
    /\ IdleBatchVars /\ IdleResolveVars /\ IdleExtraVars
NextRun ==
    \/ \E p \in Pipelines, n \in 0..MaxEntities, loadOk \in BOOLEAN,
          stored \in BOOLEAN :
          StartRun(p, n, loadOk, stored)
    \/ \E e \in EntityResults, stored \in BOOLEAN : ProcessEntity(e, stored)
    \/ \E k \in 1..MAX_CONCURRENT : \E oks \in [1..k -> BOOLEAN] :
          CheckBatch(oks)
    \/ \E stored \in BOOLEAN, storedInCatch \in BOOLEAN :
          Finalize(stored, storedInCatch)
SpecRun == InitRun /\ [][NextRun]_vars

InitBatch ==
    /\ InitBatchVars /\ BatchEnrichVars /\ InitFetchVars /\ IdleFileVars
    /\ IdleRunVars /\ IdleResolveVars /\ IdleExtraVars
NextBatch ==
    \/ \E script \in BatchScripts, dry \in BOOLEAN, auto \in BOOLEAN,
          max \in BatchSizes, slugArg \in {0, 2} :
          StartBatch(script, dry, auto, max, slugArg)
    \/ \E dry \in BOOLEAN, slugArg \in {0, 2}, batchArg \in BatchArgs :
          StartEnrich(dry, slugArg, batchArg)
    \/ \E fail \in BatchFailures : ProcessNext(fail)
    \/ EndBatch
SpecBatch == InitBatch /\ [][NextBatch]_vars
\* the loop of main() moves on to the next entity of the batch
LoopAdvances ==
    bpc = "running" /\ bdone < Len(toProcess) /\ bdone' = bdone + 1
\* main() is sequential code over a finite batch and each await settles
\* (every fetch answers, fails or times out), so the loop keeps advancing
\* and the code after it runs
SpecBatchFair ==
    /\ SpecBatch
    /\ WF_bdone(LoopAdvances)
    /\ WF_vars(EndBatch)

InitResolve ==
    /\ InitResolveVars /\ InitFetchVars /\ IdleFileVars /\ IdleEnrichVars
    /\ IdleRunVars /\ IdleBatchVars /\ IdleExtraVars
NextResolve ==
    \/ \E a \in ScoredNames, b \in ScoredNames : ScoreNames(a, b)
    \/ \E name \in CandidateNames : CheckCandidate(name)
    \/ \E info \in BookEntries : MatchBook(info)
SpecResolve == InitResolve /\ [][NextResolve]_vars

(***************************************************************************)
(* Claims about fetchWithRetry (checked under SpecFetch)                   *)
(***************************************************************************)
\* the sleeps performed during loop iteration k, in milliseconds
WaitMsOf(k) ==
    LET ws == SelectSeq(waits, LAMBDA w : w.attempt = k)
    IN  [i \in 1..Len(ws) |-> ws[i].ms]

AllRetryable(n) == \A j \in 1..n : IsRetryable(responses[j])

\* C1: one call issues at most 3 requests; after an attempt k answered 429
\* or >= 500 it waits 2000*k ms; when all 3 attempts are answered 429/5xx
\* the call raises a terminal error and returns no payload.
Thm_C1 ==
    /\ Len(responses) <= 3
    /\ \A k \in 1..Len(responses) :
          IsRetryable(responses[k]) => WaitMsOf(k) = <<2000 * k>>
    /\ (Len(responses) = 3 /\ AllRetryable(3)) =>
          (fpc = "thrown" /\ ferr # "" /\ payloads = 0)

Wit_C1 ==
    /\ Len(responses) = 3 /\ AllRetryable(3)
    /\ fpc = "thrown"
    /\ [i \in 1..Len(waits) |-> waits[i].ms] = <<2000, 4000, 6000>>

\* C2 (as claimed): an attempt answered with a non-2xx status other than 429
\* and 5xx ends the call at once: it is the last request of the call and no
\* backoff wait follows it.
CEx_C2 ==
    \A k \in 1..Len(responses) :
        IsPermanent(responses[k]) =>
            (k = Len(responses) /\ fpc = "thrown" /\ WaitMsOf(k) = <<>>)

\* C3: if the first k-1 attempts (k <= 3) are answered 429 or 5xx and attempt
\* k is answered 200, the call returns exactly one payload after exactly k-1
\* backoff waits.
Thm_C3 ==
    \A k \in 1..3 :
        ( /\ Len(responses) = k
          /\ AllRetryable(k - 1)
          /\ responses[k] = [kind |-> "status", status |-> 200] )
        => (fpc = "returned" /\ payloads = 1 /\ Len(waits) = k - 1)

Wit_C3 ==
    /\ [i \in 1..Len(responses) |-> responses[i].status] = <<429, 429, 200>>
    /\ \A i \in 1..Len(responses) : responses[i].kind = "status"
    /\ fpc = "returned" /\ payloads = 1
    /\ [i \in 1..Len(waits) |-> waits[i].ms] = <<2000, 4000>>

(***************************************************************************)
(* Claims about surgicalUpdateGuidelineRefs (checked under SpecFile)       *)
(***************************************************************************)
Indices(f) == [i \in 1..Len(f) |-> i]
IsKeyLine(l) == l.k \in {"key", "gref", "pmq"}
HasGref(f) == \E i \in 1..Len(f) : f[i].k = "gref"
GrefAt(f) == CHOOSE i \in 1..Len(f) : f[i].k = "gref"
\* the first key line after line i, or one past the end of the file
KeyAfter(f, i) ==
    IF \E j \in (i + 1)..Len(f) : IsKeyLine(f[j])
    THEN CHOOSE j \in (i + 1)..Len(f) :
            IsKeyLine(f[j]) /\ \A h \in (i + 1)..(j - 1) : ~IsKeyLine(f[h])
    ELSE Len(f) + 1
\* the value lines of the field whose key is line i
ValueOf(f, i) ==
    SelectSeq(SubSeq(f, i + 1, KeyAfter(f, i) - 1), LAMBDA l : l.k = "ind")
\* the top-level fields other than guidelineRefs, in file order
OtherFields(f) ==
    LET keys == SelectSeq(Indices(f),
                          LAMBDA i : IsKeyLine(f[i]) /\ f[i].k # "gref")
    IN  [n \in 1..Len(keys) |-> [key |-> f[keys[n]], value |-> ValueOf(f, keys[n])]]

\* the lines of the guidelineRefs field itself: its key line and the value
\* lines under it
RECURSIVE ValueEnd(_, _)
ValueEnd(f, i) ==
    IF i < Len(f) /\ f[i + 1].k = "ind" THEN ValueEnd(f, i + 1) ELSE i
OutsideField(f) ==
    IF HasGref(f)
    THEN SubSeq(f, 1, GrefAt(f) - 1) \o SubSeq(f, ValueEnd(f, GrefAt(f)) + 1, Len(f))
    ELSE f
\* the lines outside the stretch from the guidelineRefs key line up to (not
\* including) the next line that begins with a letter
OutsideStretch(f) ==
    IF HasGref(f)
    THEN SubSeq(f, 1, GrefAt(f) - 1) \o SubSeq(f, KeyAfter(f, GrefAt(f)), Len(f))
    ELSE f

RECURSIVE IsSubseq(_, _)
IsSubseq(a, b) ==
    IF a = <<>> THEN TRUE
    ELSE IF b = <<>> THEN FALSE
    ELSE IF Head(a) = Head(b) THEN IsSubseq(Tail(a), Tail(b))
    ELSE IsSubseq(a, Tail(b))

\* file0 with one empty line put before its pubmedQueries line, or at the end
WithBlankInserted(f) ==
    LET at == IF \E i \in 1..Len(f) : f[i].k = "pmq"
              THEN CHOOSE i \in 1..Len(f) : f[i].k = "pmq"
              ELSE Len(f) + 1
    IN  SubSeq(f, 1, at - 1) \o <<BlankLine>> \o SubSeq(f, at, Len(f))

NonBlank(f) == SelectSeq(f, LAMBDA l : l.k # "blank")

\* C7 (as claimed): every field outside guidelineRefs keeps its value, and
\* every line of the file that is not a line of the guidelineRefs field is
\* still there, unchanged and in the same order (empty lines, which include
\* the file's final newline, are left out of the comparison).
CEx_C7 ==
    /\ OtherFields(file) = OtherFields(file0)
    /\ IsSubseq(NonBlank(OutsideField(file0)), NonBlank(OutsideField(file)))

\* C7 (amended): every field outside guidelineRefs keeps its key line and
\* its value lines; the update rewrites the stretch from the guidelineRefs
\* key line up to the next line that begins with a letter (blank and comment
\* lines in column 0 that follow the list go with it) and keeps every line
\* outside that stretch unchanged and in order; a file without the field
\* gains one empty line and the new field before pubmedQueries or at the end.
Thm_C7 ==
    /\ OtherFields(file) = OtherFields(file0)
    /\ nUpdates > 0 =>
          /\ HasGref(file)
          /\ IF HasGref(file0)
             THEN OutsideStretch(file) = OutsideStretch(file0)
             ELSE OutsideStretch(file) = WithBlankInserted(file0)

\* a file whose guidelineRefs list is followed by a blank or comment line and
\* then by another field with a value, updated twice
Wit_C7 ==
    /\ nUpdates = 2
    /\ HasGref(file0)
    /\ \E i \in 1..Len(file0) :
          /\ i > GrefAt(file0) + 1
          /\ file0[i].k = "key"
          /\ file0[i - 1].k \in {"blank", "comment"}
    /\ file # file0
    /\ Len(OtherFields(file)) >= 2

(***************************************************************************)
(* Claims about the enrichment runs (checked under Spec)                   *)
(***************************************************************************)
\* the PMID a ref identifies: its pmid key in whatever representation,
\* else the id in its PubMed url (0: none)
RefPmid(r) ==
    IF r.pmidKind # "none" THEN r.pmid
    ELSE IF r.urlKind = "pubmed" THEN r.urlId
    ELSE 0

\* C4 (as claimed): a second live run of the same script over the same
\* provider data, with nothing failing in either run, reports added = 0.
CEx_C4 == streak = 2 => last.added = 0

\* C5 (as claimed): no two guidelineRefs of the entity identify the same PMID.
CEx_C5 ==
    \A i, j \in 1..Len(guidelineRefs) :
        (i # j /\ RefPmid(guidelineRefs[i]) # 0)
            => RefPmid(guidelineRefs[i]) # RefPmid(guidelineRefs[j])

\* C6 (as claimed): every ref the file held before the runs is still there,
\* in its place, with every one of its fields unchanged.
CEx_C6 ==
    \A i \in 1..Len(guidelineRefs0) :
        /\ i <= Len(guidelineRefs)
        /\ guidelineRefs[i] = guidelineRefs0[i]

(***************************************************************************)
(* Claims about the batch runs (checked under SpecRun)                     *)
(***************************************************************************)
HasOutcome(o) == \E i \in 1..Len(outcomes) : outcomes[i] = o
LastLog == update_logs[Len(update_logs)]
Ended == rpc \in {"done", "caught"}
\* the catch block was entered although no entity had failed
TopLevelError == rpc = "caught" /\ ~HasOutcome("fail")

\* C8: a failure while processing one entity does not abort the batch:
\* a run in which an entity failed ends only after every entity of the
\* batch has been processed.
CEx_C8 ==
    (Ended /\ HasOutcome("fail")) => Len(outcomes) = entities

\* C9: a run that has ended logs success iff no entity failed, partial iff
\* some entities failed and some succeeded, and failed only from the
\* top-level catch, with the error text in details and a failure exit code.
CEx_C9 ==
    (Ended /\ pipeline \in LoggedPipelines)
      => /\ (LastLog.status = "success")
               <=> (~TopLevelError /\ ~HasOutcome("fail"))
         /\ (LastLog.status = "partial")
               <=> (HasOutcome("fail") /\ HasOutcome("ok"))
         /\ (LastLog.status = "failed")
               => (rpc = "caught" /\ LastLog.error /\ exitCode = 1)

\* C10 (as stated): while a run is processing its entities, update_logs
\* holds a row with status running for it, and a run that has ended has
\* its row, with a final status.
CEx_C10 ==
    /\ (rpc = "running" /\ pipeline \in LoggedPipelines)
          => \E i \in 1..Len(update_logs) : update_logs[i].status = "running"
    /\ (rpc \in {"done", "caught", "crashed"} /\ pipeline \in LoggedPipelines)
          => /\ update_logs # <<>>
             /\ LastLog.pipeline = pipeline
             /\ LastLog.status \in {"success", "partial", "failed"}

(***************************************************************************)
(* Claims about the batch runs of the enrichers (checked under SpecBatch   *)
(* and SpecBatchFair)                                                      *)
(***************************************************************************)
RefTotal(files) ==
    LET RECURSIVE Sum(_)
        Sum(i) == IF i = 0 THEN 0 ELSE Len(files[i].guidelineRefs) + Sum(i - 1)
    IN  Sum(Len(files))
BatchSlugs == {toProcess[i].slug : i \in 1..Len(toProcess)}
Resumable == bargs.script \in BatchScripts

\* C11 as stated: every batch run that has ended has left the key of the
\* last entity it processed in the checkpoint.
CEx_C11 ==
    (bpc = "done" /\ Resumable /\ Len(toProcess) > 0)
      => LastSlugOf(bargs.script, stateFile) = toProcess[Len(toProcess)].slug

CheckpointStep ==
    /\ (bpc = "running" /\ bdone' = bdone + 1 /\ ~bargs.dry)
          => btotal' - btotal = RefTotal(catalog') - RefTotal(catalog)
    /\ IF bpc = "running" /\ bpc' = "done" /\ Resumable /\ ~bargs.dry
            /\ Len(toProcess) > 0
         THEN /\ bdone = Len(toProcess)
              /\ LastSlugOf(bargs.script, stateFile')
                    = toProcess[Len(toProcess)].slug
              /\ stateFile'.totalRefsAdded = stateFile.totalRefsAdded + btotal
              /\ \A sc \in BatchScripts \ {bargs.script} :
                    LastSlugOf(sc, stateFile') = LastSlugOf(sc, stateFile)
         ELSE stateFile' = stateFile

\* C11 (amended): every batch run terminates; a live run of
\* deep-literature-scan or rare-knowledge-rescue whose batch is not empty
\* overwrites, as its last step, the checkpoint key of its script with the
\* slug of the last entity of the batch and adds to totalRefsAdded the
\* number of refs the run wrote into the catalog; a dry run, a run with an
\* empty batch and every run of enrich-guidelinerefs leave the state file
\* as it is.
Thm_C11 ==
    /\ (bpc = "running") ~> (bpc = "done")
    /\ [][CheckpointStep]_vars

\* two live runs, one of each script, have ended and both added refs
Wit_C11 ==
    /\ bpc = "done"
    /\ nBatches = 2
    /\ ~bargs.dry
    /\ btotal > 0
    /\ stateFile.lastLiteratureScanSlug # 0
    /\ stateFile.lastRareRescueSlug # 0
    /\ stateFile.totalRefsAdded > btotal

\* C12: a run started with --batch auto after a checkpoint was written
\* starts right after the checkpoint entity and selects no entity of the
\* batch that wrote the checkpoint.
CEx_C12 ==
    (bpc = "running" /\ bdone = 0 /\ Resumable /\ bargs.auto /\ bargs.slug = 0
        /\ LastSlugOf(bargs.script, stateFile) # 0)
      => LET cands == Candidates(bargs.script, catalog, 0)
             k     == FindIndex(cands, LastSlugOf(bargs.script, stateFile))
         IN  /\ (k > 0 /\ Len(toProcess) > 0) => toProcess[1] = cands[k + 1]
             /\ BatchSlugs \cap ckptBatch[bargs.script] = {}

(***************************************************************************)
(* C13: dry runs                                                           *)
(***************************************************************************)
\* what the iteration over entity d of the batch reports as added when the
\* run is live and `fail` goes wrong
LiveAdded(d, fail) ==
    LET res == ProcessDisease(bargs.script, catalog[d.slug].guidelineRefs,
                              world, d.isExotic, FALSE, fail)
    IN  IF res.threw THEN 0 ELSE res.added

DryRunStep ==
    (bpc = "running" /\ bargs.dry) =>
        /\ catalog' = catalog
        /\ stateFile' = stateFile
        /\ bdone' = bdone + 1 =>
              \E fail \in BatchFailures :
                  btotal' - btotal = LiveAdded(toProcess[bdone + 1], fail)
        /\ bpc' = "done" => bdone = Len(toProcess)

\* C13: while a dry run (of enrich-guidelinerefs, deep-literature-scan or
\* rare-knowledge-rescue) is under way no step changes a catalog file or the
\* state file; each iteration of its loop adds to the reported total what a
\* live run would have added for the same entity on the same answers, and
\* the run ends only after the whole batch went through the loop.
Thm_C13 == [][DryRunStep]_vars

\* a dry run over a non-empty batch has ended, reported additions, and the
\* catalog and the state file are as they were at the start
Wit_C13 ==
    /\ bpc = "done" /\ bargs.dry /\ Resumable
    /\ Len(toProcess) > 0 /\ btotal > 0
    /\ catalog \in Catalogs
    /\ stateFile = NoState

(***************************************************************************)
(* C14: the derived article type                                           *)
(***************************************************************************)
\* the category of the highest precedence among the PublicationType tags,
\* in the order consensus > guideline > review > case-report
TagPrecedenceType(a) ==
    IF "consensus" \in a.tags THEN "consensus"
    ELSE IF "guideline" \in a.tags THEN "guideline"
    ELSE IF "review" \in a.tags THEN "review"
    ELSE IF "case reports" \in a.tags THEN "case-report"
    ELSE "research"

\* the refs the last call appended to the file
AddedRefs ==
    IF last.wrote /\ last.added > 0
    THEN { guidelineRefs[i] :
             i \in (Len(guidelineRefs) - last.added + 1)..Len(guidelineRefs) }
    ELSE {}

\* C14 (as stated): every ref a call wrote for an article whose tags name a
\* category, or whose tags and title name none, carries the category of the
\* highest precedence among its tags, consensus > guideline > review >
\* case-report, and research when there is none.
CEx_C14 ==
    \A r \in AddedRefs :
        LET a == Articles[r.pmid]
        IN  (a.tags # {} \/ a.titleWords = {}) => r.type = TagPrecedenceType(a)

(***************************************************************************)
(* C15 - C18: the entity resolvers                                         *)
(***************************************************************************)
ExactMethods == {"slug", "name-exact", "name-zh", "synonym"}
ExactVias == {"slug", "name", "alias"}
One == Score(1, 1)
Asked == { i \in 1..Len(decisions) : ~decisions[i].skipped }
\* the catalog as each script loads it
Existing == loadExistingDiseases(vetpro)
Loaded == LoadVetpro(vetpro)
SlugsOfExisting == { Existing[i].slug : i \in 1..Len(Existing) }
SlugsOfVetpro == { Loaded[i].slug : i \in 1..Len(Loaded) }
BookOf(slug) == CHOOSE info \in BookEntries : info.slug = slug

\* the normalized names and aliases of a catalog disease
NormKeys(e) == {e.nameEnNorm} \cup { e.aliases[k] : k \in 1..Len(e.aliases) }
\* its lowercased name and aliases, however an alias is written in the file
AllEnLowerKeys(d) ==
    (IF d.nameEn # <<>> THEN {toLowerCase(d.nameEn)} ELSE {})
        \cup { toLowerCase(d.aliases[k].alias) : k \in 1..Len(d.aliases) }
\* the catalog diseases a candidate name of deduplicate-diseases matches
\* exactly: by slug, by normalized name or by normalized alias
ExactForName(name) ==
    { i \in 1..Len(Existing) :
        \/ Existing[i].slug = nameToSlug(name)
        \/ normalize(name) \in NormKeys(Existing[i]) }
\* the catalog diseases a BOOK entry matches exactly by slug, name, alias,
\* localized name or synonym
StatedExactForBook(info) ==
    { i \in 1..Len(Loaded) :
        \/ Loaded[i].slug = info.slug
        \/ toLowerCase(info.en) \in AllEnLowerKeys(Loaded[i])
        \/ info.zh # "" /\ Loaded[i].nameZh = info.zh
        \/ \E k \in 1..Len(info.synonyms) :
              \/ toLowerCase(info.synonyms[k]) \in AllEnLowerKeys(Loaded[i])
              \/ slugify(info.synonyms[k]) = Loaded[i].slug }
\* the catalog diseases an exact tier of match-book-vetpro finds for a BOOK
\* entry: the aliases written as strings are the only ones it looks at
ExactForBook(info) ==
    { i \in 1..Len(Loaded) :
        \/ Loaded[i].slug = info.slug
        \/ toLowerCase(info.en) \in EnLowerKeys(Loaded[i])
        \/ info.zh # "" /\ Loaded[i].nameZh = info.zh
        \/ \E k \in 1..Len(info.synonyms) :
              \/ toLowerCase(info.synonyms[k]) \in EnLowerKeys(Loaded[i])
              \/ slugify(info.synonyms[k]) = Loaded[i].slug }

\* C15 (as stated): whenever the external entry matches a catalog disease
\* exactly (slug, name, alias, localized name or synonym), the resolver
\* reports an exact method with score 1.0.
CEx_C15 ==
    /\ \A i \in Asked :
          ExactForName(decisions[i].name) # {} =>
              /\ decisions[i].res.via \in ExactVias
              /\ ScoreIs(decisions[i].res.matchScore, 1, 1)
    /\ \A i \in 1..Len(results) :
          StatedExactForBook(BookOf(results[i].bookSlug)) # {} =>
              /\ results[i].matchMethod \in ExactMethods
              /\ ScoreIs(results[i].diceScore, 1, 1)

\* C16 (as stated): if a catalog disease matches the external name exactly,
\* the result names such a disease with an exact method; a fuzzy or
\* containment match with another disease is never returned instead.
CEx_C16 ==
    /\ \A i \in Asked :
          ExactForName(decisions[i].name) # {} =>
              /\ decisions[i].res.via \in ExactVias
              /\ \E k \in ExactForName(decisions[i].name) :
                    Existing[k].slug = decisions[i].res.matchedSlug
    /\ \A i \in 1..Len(results) :
          StatedExactForBook(BookOf(results[i].bookSlug)) # {} =>
              /\ results[i].matchMethod \in ExactMethods
              /\ \E k \in StatedExactForBook(BookOf(results[i].bookSlug)) :
                    Loaded[k].slug = results[i].vetproSlug

\* ---- C17: the fuzzy tier ----
\* the diseases not matched by the results before result i
Unmatched(i) ==
    { k \in 1..Len(Loaded) :
        \A j \in 1..(i - 1) : results[j].vetproSlug # Loaded[k].slug }
\* the Dice score of a BOOK entry and a catalog disease: the larger of the
\* score of the slugs and the score of the names
PairScore(info, d) ==
    LET bySlug == diceCoefficient(getBigrams(info.slug), getBigrams(d.slug))
        byName == diceCoefficient(getBigrams(toLowerCase(info.en)),
                                  getBigrams(toLowerCase(d.nameEn)))
    IN  IF ScoreGt(byName, bySlug) THEN byName ELSE bySlug
\* the results and answers no exact tier decided
FuzzyResults ==
    { i \in 1..Len(results) : ExactForBook(BookOf(results[i].bookSlug)) = {} }
FuzzyDecisions ==
    { i \in Asked : ExactForName(decisions[i].name) = {} }
NameScore(i, k) == similarity(normalize(decisions[i].name), Existing[k].nameEnNorm)

\* C17 (as stated): the fuzzy tier assigns a disease exactly when the
\* highest score strictly exceeds the threshold (0.7 cross-catalog, 0.85
\* duplicate detection), and then it is a disease with the highest score.
CEx_C17 ==
    /\ \A i \in FuzzyResults :
          LET info == BookOf(results[i].bookSlug)
          IN  /\ results[i].matchMethod = "dice" <=>
                    \E k \in Unmatched(i) : ScoreGt(PairScore(info, Loaded[k]), Score(7, 10))
              /\ results[i].matchMethod = "dice" =>
                    \E k \in Unmatched(i) :
                        /\ Loaded[k].slug = results[i].vetproSlug
                        /\ \A j \in Unmatched(i) :
                              ScoreGe(PairScore(info, Loaded[k]), PairScore(info, Loaded[j]))
    /\ \A i \in FuzzyDecisions :
          /\ decisions[i].res.via = "fuzzy" <=>
                \E k \in 1..Len(Existing) : ScoreGt(NameScore(i, k), Score(85, 100))
          /\ decisions[i].res.via = "fuzzy" =>
                \E k \in 1..Len(Existing) :
                    /\ Existing[k].slug = decisions[i].res.matchedSlug
                    /\ \A j \in 1..Len(Existing) : ScoreGe(NameScore(i, k), NameScore(i, j))

\* ---- C18: the Dice score ----
\* 2 * |A \cap B| / (|A| + |B|)
Dice(A, B) == Score(2 * Cardinality(A \cap B), Cardinality(A) + Cardinality(B))
\* the string reduced to its lowercased alphanumeric characters
AlnumOf(str) == SelectSeq(toLowerCase(str), LAMBDA c : c \in Alnum)
\* the string lowercased, each other character a space, without the spaces
\* at its ends
SpacedOf(str) == trim([i \in 1..Len(str) |->
                          IF LowerOf(str[i]) \in Alnum THEN LowerOf(str[i]) ELSE " "])
Cat == <<"c", "a", "t">>
Cats == <<"c", "a", "t", "s">>
SameScore(x, y) == x.num * y.den = y.num * x.den

\* C18 (as stated): both Dice scores of two names are
\* 2 * |A \cap B| / (|A| + |B|) for the bigram sets A and B of their
\* lowercased alphanumeric strings.
CEx_C18 ==
    \A i \in 1..Len(scored) :
        LET A == BigramsOf(AlnumOf(scored[i].a))
            B == BigramsOf(AlnumOf(scored[i].b))
        IN  (A # {} \/ B # {}) =>
                /\ SameScore(scored[i].similarity, Dice(A, B))
                /\ SameScore(scored[i].dice, Dice(A, B))

\* C18 (amended): the score of match-book-vetpro is 2 * |A \cap B| / (|A| + |B|)
\* for the sets of bigrams of the lowercased names without their
\* non-alphanumeric characters, and 1 when both sets are empty; the score
\* of deduplicate-diseases is the same fraction for the bigrams of the
\* lowercased names in which each non-alphanumeric character is a space,
\* and 0 when a set is empty.  Both are 0.8 for "cat" and "cats":
\* isDuplicate (threshold 0.85) does not report the candidate "Cats" a
\* duplicate of "Cat", match-book-vetpro (threshold 0.7) assigns the entry
\* "cats" to "cat" with score 0.8 unless "cat" was matched by an earlier
\* entry.
Thm_C18 ==
    /\ \A i \in 1..Len(scored) :
          LET A  == BigramsOf(AlnumOf(scored[i].a))
              B  == BigramsOf(AlnumOf(scored[i].b))
              As == BigramsOf(SpacedOf(scored[i].a))
              Bs == BigramsOf(SpacedOf(scored[i].b))
          IN  /\ scored[i].dice =
                    IF A = {} /\ B = {} THEN Score(1, 1)
                    ELSE IF A = {} \/ B = {} THEN Score(0, 1) ELSE Dice(A, B)
              /\ scored[i].similarity =
                    IF As = {} \/ Bs = {} THEN Score(0, 1) ELSE Dice(As, Bs)
              /\ (scored[i].a = Cat /\ scored[i].b = Cats) =>
                    /\ ScoreIs(scored[i].dice, 8, 10)
                    /\ ScoreIs(scored[i].similarity, 8, 10)
    /\ \A i \in Asked :
          (normalize(decisions[i].name) = Cats /\ Cat \in SlugsOfExisting) =>
              ~decisions[i].res.isDup
    /\ \A i \in 1..Len(results) :
          (/\ results[i].bookSlug = Cats
           /\ \E k \in Unmatched(i) : Loaded[k].slug = Cat) =>
              /\ results[i].matchMethod = "dice" /\ results[i].vetproSlug = Cat
              /\ ScoreIs(results[i].diceScore, 8, 10)

\* the candidate "Cats" was judged by isDuplicate and the entry "cats" was
\* matched by match-book-vetpro, against a catalog that holds "cat"
Wit_C18 ==
    /\ \E i \in Asked :
          normalize(decisions[i].name) = Cats /\ ~decisions[i].res.isDup
    /\ \E i \in 1..Len(results) :
          /\ results[i].bookSlug = Cats /\ results[i].vetproSlug = Cat
          /\ ScoreIs(results[i].diceScore, 4, 5)

(***************************************************************************)
(* C19, C20: ranking, selection and the cap                                *)
(***************************************************************************)
\* the last call ran to its end without a failure
CleanCall == last.script \in Scripts /\ last.fail = "none" /\ ~last.threw
\* the refs the file held when the last call searched, the cap of the call
\* and the articles whose details it fetched: the candidates not yet present
DataOfLast == Step1(last.script, last.before)
CapOfLast == MaxToAdd(last.script, Len(DataOfLast))
CandidatesOfLast ==
    LET limit == CandidateLimit(last.script, Len(DataOfLast))
        cands == Collect(<<>>, 1, NumQueries(last.script, isExotic), world,
                         ExistingPmids(last.script, DataOfLast), limit)
    IN  IF SkipSearch(last.script, Len(DataOfLast)) THEN {}
        ELSE { ArticleInfo(last.script, cands[i]) :
                 i \in 1..(IF Len(cands) < limit THEN Len(cands) ELSE limit) }
\* the refs the last call added, in the order it appended them
AddedSeq ==
    IF last.wrote /\ last.added > 0
    THEN SubSeq(guidelineRefs, Len(guidelineRefs) - last.added + 1, Len(guidelineRefs))
    ELSE <<>>
AdmittedOfLast ==
    { c \in CandidatesOfLast : \E i \in 1..Len(AddedSeq) : AddedSeq[i].pmid = c.pmid }

\* the order of the statement: open access first, then the article type in
\* the order consensus, guideline, review, case-report, research, then the
\* later year
Priority(t) ==
    CASE t = "consensus" -> 0 [] t = "guideline" -> 1 [] t = "review" -> 2
      [] t = "case-report" -> 3 [] OTHER -> 4
RanksBefore(a, b) ==
    \/ a.isPmc /\ ~b.isPmc
    \/ a.isPmc = b.isPmc /\ Priority(a.articleType) < Priority(b.articleType)
    \/ a.isPmc = b.isPmc /\ a.articleType = b.articleType /\ a.year > b.year
InfoOfRef(r) == CHOOSE c \in CandidatesOfLast : c.pmid = r.pmid

\* C19: a live call that ran to its end admits min(cap, number of
\* candidates) of the candidates not yet present; no candidate left out
\* ranks before an admitted one in the order open access, article type
\* (consensus, guideline, review, case-report, research), later year, and
\* the admitted ones are appended in that order.
Thm_C19 ==
    (CleanCall /\ ~last.dry) =>
        /\ last.added = Cardinality(AdmittedOfLast)
        /\ last.added = (IF CapOfLast < Cardinality(CandidatesOfLast)
                         THEN CapOfLast ELSE Cardinality(CandidatesOfLast))
        /\ \A a \in AdmittedOfLast, b \in CandidatesOfLast \ AdmittedOfLast :
              ~RanksBefore(b, a)
        /\ \A i \in 1..Len(AddedSeq), j \in 1..Len(AddedSeq) :
              i < j => ~RanksBefore(InfoOfRef(AddedSeq[j]), InfoOfRef(AddedSeq[i]))

\* a live call had more candidates than its cap, admitted as many as the
\* cap, and left out a candidate it had found before an admitted one
Wit_C19 ==
    /\ CleanCall /\ ~last.dry /\ last.wrote
    /\ last.added = CapOfLast
    /\ Cardinality(CandidatesOfLast) > CapOfLast
    /\ \E a \in AdmittedOfLast, b \in CandidatesOfLast \ AdmittedOfLast :
          RanksBefore(a, b) /\ b.pmid < a.pmid

\* C20: the cap of each script does not grow with the number of refs the
\* entity holds; a call of enrich-guidelinerefs, the ordinary enrichment,
\* admits at most 3 new refs, one of rare-knowledge-rescue at most 3 and
\* one of deep-literature-scan at most 5, and none admits more than its cap.
Thm_C20 ==
    /\ \A script \in Scripts, c1 \in 0..7, c2 \in 0..7 :
          c1 <= c2 => MaxToAdd(script, c1) >= MaxToAdd(script, c2)
    /\ last.script \in Scripts =>
          /\ last.added <= CapOfLast
          /\ Len(guidelineRefs) - Len(last.before) <= last.added
          /\ last.script = "enrich" => last.added <= 3
          /\ last.script = "rare" => last.added <= 3
          /\ last.script = "deep" => last.added <= 5

\* a live call of enrich-guidelinerefs admitted 3 refs although more
\* candidates were at hand
Wit_C20 ==
    /\ last.script = "enrich" /\ last.wrote /\ last.added = 3
    /\ Len(guidelineRefs) = Len(last.before) + 3
    /\ Cardinality(CandidatesOfLast) > 3

(***************************************************************************)
(* C21: identifiers in every representation                                *)
(***************************************************************************)
\* the PMIDs a ref identifies: by its pmid key, a string or a number, and
\* by the id in its PubMed url
IdsOfRef(r) ==
    (IF r.pmidKind # "none" THEN {r.pmid} ELSE {})
        \cup (IF r.urlKind = "pubmed" THEN {r.urlId} ELSE {})

\* C21 (as stated): a call never appends a ref for a PMID that a ref the
\* file already held identifies, whatever the representation.
CEx_C21 ==
    \A i \in 1..Len(AddedSeq), j \in 1..Len(last.before) :
        AddedSeq[i].pmid \notin IdsOfRef(last.before[j])

(***************************************************************************)
(* merge-book-ddx (Phase 2a + 2b) and enrich-ddx-auto (Phase 2c)           *)
(***************************************************************************)
MaxMerges == 2

\* A YAML value as the scripts test it: a key that is absent, a key whose
\* value is falsy (null, ""), or a value with content (an object, a list --
\* the empty list included -- or a non-empty string), held as a list of
\* strings
Absent == [t |-> "absent", v |-> <<>>]
Null == [t |-> "null", v |-> <<>>]
Val(v) == [t |-> "val", v |-> v]
\* !x is false
Truthy(x) == x.t = "val"

DdxFields ==
    {"diagnosticAlgorithm", "clinicalPearls", "monitoringItems",
     "associatedSymptoms", "associatedLabFindings", "ddxSource"}
\* what the scripts read of a file besides the DDX fields: slug, nameEn,
\* nameZh and description (a list of none or one string: the key may be
\* missing), the lists early, progressive, late and common of
\* clinicalSigns, primaryTests and additional of diagnosis, principles of
\* treatment; broken tells that yaml.load fails on the file
AuthoredFields ==
    {"slug", "broken", "nameEn", "nameZh", "description", "early", "progressive",
     "late", "common", "primaryTests", "additional", "principles"}

\* book-vetpro-matches.json; a book entry without a match has vetproSlug
\* null, here ""
matches ==
    << [bookSlug |-> "otitis-externa", vetproSlug |-> "otitis"],
       [bookSlug |-> "mange-book", vetproSlug |-> "mange"],
       [bookSlug |-> "rabies", vetproSlug |-> ""],
       [bookSlug |-> "orphan", vetproSlug |-> ""],
       [bookSlug |-> "stray", vetproSlug |-> "otitis"] >>

\* disease-info.json: "orphan" has no entry
NoInfo == [en |-> "", zh |-> <<>>, diagnosticAlgorithm |-> Absent, pearls |-> <<>>, monitoring |-> <<>>]
diseaseInfo(bookSlug) ==
    CASE bookSlug = "otitis-externa" ->
            [en |-> "Otitis Externa", zh |-> <<<<"z","h"," ","o","t","i","t","i","s">>>>,
             diagnosticAlgorithm |-> Val(<<"book-algorithm">>),
             pearls |-> <<"book-pearl">>, monitoring |-> <<>>]
      [] bookSlug = "mange-book" ->
            [en |-> "Mange", zh |-> <<<<"z","h"," ","m","a","n","g","e">>>>,
             diagnosticAlgorithm |-> Absent,
             pearls |-> <<>>, monitoring |-> <<"book-monitoring">>]
      [] bookSlug = "stray" ->
            [en |-> "Ear Disease", zh |-> <<<<"z","h"," ","e","a","r">>>>,
             diagnosticAlgorithm |-> Val(<<"stray-algorithm">>),
             pearls |-> <<>>, monitoring |-> <<"stray-monitoring">>]
      [] bookSlug = "rabies" ->
            [en |-> "Rabies", zh |-> <<<<"z","h"," ","r","a","b","i","e","s">>>>,
             diagnosticAlgorithm |-> Val(<<"book-algorithm">>),
             pearls |-> <<>>, monitoring |-> <<"book-monitoring">>]
      [] OTHER -> NoInfo

\* disease-to-symptoms.json and disease-to-labs.json: symptomId / labId of
\* the links of a book entry
diseaseToSymptoms(bookSlug) ==
    CASE bookSlug = "otitis-externa" -> <<"head-shaking", "pruritus">>
      [] bookSlug = "rabies" -> <<"aggression">>
      [] OTHER -> <<>>
diseaseToLabs(bookSlug) ==
    CASE bookSlug = "mange-book" -> <<"skin-scrape">>
      [] OTHER -> <<>>

matchedEntries == SelectSeq(matches, LAMBDA m : m.vetproSlug # "")
unmatchedEntries == SelectSeq(matches, LAMBDA m : m.vetproSlug = "")

\* a variant of MergeFields that stamps the marker on every modified file
MergeFieldsStamp(data, bookSlug) ==
    LET bookInfo == diseaseInfo(bookSlug)
        d1 == IF ~Truthy(data.diagnosticAlgorithm) /\ Truthy(bookInfo.diagnosticAlgorithm)
              THEN [data EXCEPT !.diagnosticAlgorithm = bookInfo.diagnosticAlgorithm]
              ELSE data
        d2 == IF ~Truthy(d1.clinicalPearls) /\ Len(bookInfo.pearls) > 0
              THEN [d1 EXCEPT !.clinicalPearls = Val(bookInfo.pearls)]
              ELSE d1
        d4 == IF ~Truthy(d2.associatedSymptoms) /\ Len(diseaseToSymptoms(bookSlug)) > 0
              THEN [d2 EXCEPT !.associatedSymptoms = Val(diseaseToSymptoms(bookSlug))]
              ELSE d2
    IN  IF d4 # data THEN [d4 EXCEPT !.ddxSource = Val(<<"book">>)] ELSE d4

\* Phase 2a, the body of the loop once the file was read and parsed:
\* each DDX field is set when the file has none (!data.x) and the book
\* has one, then the marker
MergeFields(data, bookSlug) ==
    LET bookInfo == diseaseInfo(bookSlug)
        d1 == IF ~Truthy(data.diagnosticAlgorithm) /\ Truthy(bookInfo.diagnosticAlgorithm)
              THEN [data EXCEPT !.diagnosticAlgorithm = bookInfo.diagnosticAlgorithm]
              ELSE data
        d2 == IF ~Truthy(d1.clinicalPearls) /\ Len(bookInfo.pearls) > 0
              THEN [d1 EXCEPT !.clinicalPearls = Val(bookInfo.pearls)]
              ELSE d1
        d3 == IF ~Truthy(d2.monitoringItems) /\ Len(bookInfo.monitoring) > 0
              THEN [d2 EXCEPT !.monitoringItems = Val(bookInfo.monitoring)]
              ELSE d2
        d4 == IF ~Truthy(d3.associatedSymptoms) /\ Len(diseaseToSymptoms(bookSlug)) > 0
              THEN [d3 EXCEPT !.associatedSymptoms = Val(diseaseToSymptoms(bookSlug))]
              ELSE d3
        d5 == IF ~Truthy(d4.associatedLabFindings) /\ Len(diseaseToLabs(bookSlug)) > 0
              THEN [d4 EXCEPT !.associatedLabFindings = Val(diseaseToLabs(bookSlug))]
              ELSE d4
        modified == d5 # data
    IN  IF modified /\ ~Truthy(d5.ddxSource)
        THEN [d5 EXCEPT !.ddxSource = Val(<<"book">>)]
        ELSE d5

HasInfo(bookSlug) == diseaseInfo(bookSlug) # NoInfo

\* Phase 2a: the loop over the matched entries, from entry i on; acc holds
\* the files, mergedCount and skippedCount
RECURSIVE Phase2a(_, _, _)
Phase2a(i, acc, dryRun) ==
    IF i > Len(matchedEntries) THEN acc
    ELSE LET match == matchedEntries[i]
             yamlFile == acc.disk[match.vetproSlug]
         IN  IF ~HasInfo(match.bookSlug) THEN Phase2a(i + 1, acc, dryRun)
             ELSE IF yamlFile = <<>> \/ yamlFile[1].broken
             THEN Phase2a(i + 1, [acc EXCEPT !.skippedCount = @ + 1], dryRun)
             ELSE LET data == MergeFields(yamlFile[1], match.bookSlug)
                  IN  IF data = yamlFile[1] THEN Phase2a(i + 1, acc, dryRun)
                      ELSE Phase2a(i + 1,
                             [acc EXCEPT !.mergedCount = @ + 1,
                                         !.disk = IF dryRun THEN @
                                                  ELSE [@ EXCEPT ![match.vetproSlug] = <<data>>]],
                             dryRun)

\* Phase 2b: the file written for a BOOK-only entry; the book entries of
\* the model carry no definition, presentation, diagnosis or treatment, so
\* description is "" and the lists are empty
NewYaml(bookSlug) ==
    LET bookInfo == diseaseInfo(bookSlug)
    IN  [slug |-> bookSlug, broken |-> FALSE, nameEn |-> bookInfo.en,
         nameZh |-> bookInfo.zh, description |-> << <<>> >>,
         early |-> <<>>, progressive |-> <<>>, late |-> <<>>, common |-> <<>>,
         primaryTests |-> <<>>, additional |-> <<>>, principles |-> <<>>,
         diagnosticAlgorithm |-> bookInfo.diagnosticAlgorithm,
         clinicalPearls |-> IF Len(bookInfo.pearls) > 0 THEN Val(bookInfo.pearls) ELSE Absent,
         monitoringItems |-> IF Len(bookInfo.monitoring) > 0 THEN Val(bookInfo.monitoring) ELSE Absent,
         associatedSymptoms |-> IF Len(diseaseToSymptoms(bookSlug)) > 0
                                THEN Val(diseaseToSymptoms(bookSlug)) ELSE Absent,
         associatedLabFindings |-> IF Len(diseaseToLabs(bookSlug)) > 0
                                   THEN Val(diseaseToLabs(bookSlug)) ELSE Absent,
         ddxSource |-> Val(<<"book-only">>)]

\* a variant of Phase2b that writes the file whether or not it exists
RECURSIVE Phase2bRewrite(_, _, _)
Phase2bRewrite(i, acc, dryRun) ==
    IF i > Len(unmatchedEntries) THEN acc
    ELSE LET entry == unmatchedEntries[i]
         IN  IF ~HasInfo(entry.bookSlug) THEN Phase2bRewrite(i + 1, acc, dryRun)
             ELSE Phase2bRewrite(i + 1,
                    [acc EXCEPT !.newCount = @ + 1,
                                !.disk = IF dryRun THEN @
                                         ELSE [@ EXCEPT ![entry.bookSlug] = <<NewYaml(entry.bookSlug)>>]],
                    dryRun)

\* Phase 2b: the loop over the entries without a match
RECURSIVE Phase2b(_, _, _)
Phase2b(i, acc, dryRun) ==
    IF i > Len(unmatchedEntries) THEN acc
    ELSE LET entry == unmatchedEntries[i]
         IN  IF ~HasInfo(entry.bookSlug) THEN Phase2b(i + 1, acc, dryRun)
             ELSE IF acc.disk[entry.bookSlug] # <<>> THEN Phase2b(i + 1, acc, dryRun)
             ELSE Phase2b(i + 1,
                    [acc EXCEPT !.newCount = @ + 1,
                                !.disk = IF dryRun THEN @
                                         ELSE [@ EXCEPT ![entry.bookSlug] = <<NewYaml(entry.bookSlug)>>]],
                    dryRun)

\* keyword-to-symptom.yaml, sorted by keyword length descending
keywords ==
    << [keyword |-> <<"s","c","r","a","t","c","h">>, symptomId |-> "pruritus"],
       [keyword |-> <<"c","o","u","g","h">>, symptomId |-> "cough"],
       [keyword |-> <<"i","t","c","h">>, symptomId |-> "pruritus"] >>

\* textsToScan.join(" ")
RECURSIVE JoinTexts(_)
JoinTexts(texts) ==
    IF texts = <<>> THEN <<>>
    ELSE IF Len(texts) = 1 THEN texts[1]
    ELSE texts[1] \o <<" ">> \o JoinTexts(Tail(texts))
\* the texts scanned for keywords, in the order they are pushed: the four
\* lists of clinicalSigns, description and nameZh when they are strings
\* (the empty one included), diagnosis.primaryTests, treatment.principles
textsToScan(data) ==
    data.early \o data.progressive \o data.late \o data.common
        \o data.description \o data.nameZh \o data.primaryTests \o data.principles
fullText(data) == JoinTexts(textsToScan(data))

\* matchedSymptoms of enrich-ddx-auto, in insertion order, from keyword k on
RECURSIVE matchedSymptoms(_, _, _)
matchedSymptoms(data, k, found) ==
    IF k > Len(keywords) THEN found
    ELSE LET kw == keywords[k]
         IN  IF \E j \in 1..Len(found) : found[j].symptomId = kw.symptomId
             THEN matchedSymptoms(data, k + 1, found)
             ELSE IF Includes(fullText(data), kw.keyword)
             THEN matchedSymptoms(data, k + 1,
                    Append(found,
                      [symptomId |-> kw.symptomId,
                       frequency |-> IF \E j \in 1..Len(data.early) : Includes(data.early[j], kw.keyword)
                                     THEN "common" ELSE "uncommon"]))
             ELSE matchedSymptoms(data, k + 1, found)

\* the symptom ids and frequencies of the links, as one list of strings
RECURSIVE LinkStrings(_)
LinkStrings(links) ==
    IF links = <<>> THEN <<>>
    ELSE <<links[1].symptomId, links[1].frequency>> \o LinkStrings(Tail(links))
RECURSIVE LinkIds(_)
LinkIds(links) ==
    IF links = <<>> THEN <<>> ELSE <<links[1].symptomId>> \o LinkIds(Tail(links))

\* a string of the file as one string
RECURSIVE Str(_)
Str(cs) == IF cs = <<>> THEN "" ELSE Head(cs) \o Str(Tail(cs))
Strs(texts) == [i \in 1..Len(texts) |-> Str(texts[i])]

\* the texts of the template that are Chinese in the script:
\* `${nameZh} ...` of the title and `${id} ...` of the findings of step 1
ZhTitleSuffix == " (zh: diagnostic algorithm)"
SymptomSuffix == " (zh: related symptoms)"
\* a step of the template with its findings, dropped by
\* .filter((s) => s.findings.length > 0) when it has none
TemplateStep(step, findings) ==
    IF findings = <<>> THEN <<>> ELSE <<step>> \o findings
\* the template diagnosticAlgorithm: its title and its steps
TemplateAlgorithm(data, found) ==
    LET nameEn == IF data.nameEn # "" THEN data.nameEn ELSE data.slug
        nameZh == IF data.nameZh # <<>> THEN Str(data.nameZh[1]) ELSE ""
        title  == IF nameZh # "" THEN nameZh \o ZhTitleSuffix
                  ELSE nameEn \o " Diagnostic Algorithm"
        ids    == Take(LinkIds(found), 3)
    IN  <<title>>
          \o TemplateStep("step 1", [i \in 1..Len(ids) |-> ids[i] \o SymptomSuffix])
          \o TemplateStep("step 2", Strs(Take(data.primaryTests, 3)))
          \o TemplateStep("step 3", Strs(Take(data.additional, 3)))
          \o TemplateStep("step 4", Strs(Take(data.principles, 3)))

\* enrich-ddx-auto: what the loop body makes of a file it does not skip
AutoFields(data) ==
    LET found == matchedSymptoms(data, 1, <<>>)
        d1 == [data EXCEPT !.associatedSymptoms = Val(LinkStrings(found))]
        d2 == IF ~Truthy(d1.diagnosticAlgorithm)
              THEN [d1 EXCEPT !.diagnosticAlgorithm = Val(TemplateAlgorithm(data, found))]
              ELSE d1
    IN  [d2 EXCEPT !.ddxSource = Val(<<"auto-generated">>)]

\* the slugs of data/diseases in readdirSync order
DiskSlugs == <<"mange", "otitis", "rabies">>

\* enrich-ddx-auto: the loop over the files, from file i on
RECURSIVE AutoLoop(_, _, _)
AutoLoop(i, acc, dryRun) ==
    IF i > Len(DiskSlugs) THEN acc
    ELSE LET yamlFile == acc.disk[DiskSlugs[i]]
         IN  IF yamlFile = <<>> \/ yamlFile[1].broken \/ yamlFile[1].slug = ""
             THEN AutoLoop(i + 1, acc, dryRun)
             ELSE IF Truthy(yamlFile[1].ddxSource) \/ Truthy(yamlFile[1].associatedSymptoms)
             THEN AutoLoop(i + 1, [acc EXCEPT !.alreadyHasCount = @ + 1], dryRun)
             ELSE IF matchedSymptoms(yamlFile[1], 1, <<>>) = <<>>
             THEN AutoLoop(i + 1, [acc EXCEPT !.noMatchCount = @ + 1], dryRun)
             ELSE AutoLoop(i + 1,
                    [acc EXCEPT !.enrichedCount = @ + 1,
                                !.disk = IF dryRun THEN @
                                         ELSE [@ EXCEPT ![DiskSlugs[i]] = <<AutoFields(yamlFile[1])>>]],
                    dryRun)

\* ---- the files the runs start from ----
PlainFile(slug, nameEn, early, description) ==
    [slug |-> slug, broken |-> FALSE, nameEn |-> nameEn, nameZh |-> <<>>,
     description |-> <<description>>,
     early |-> early, progressive |-> <<>>, late |-> <<>>, common |-> <<>>,
     primaryTests |-> <<>>, additional |-> <<>>, principles |-> <<>>,
     diagnosticAlgorithm |-> Absent, clinicalPearls |-> Absent,
     monitoringItems |-> Absent, associatedSymptoms |-> Absent,
     associatedLabFindings |-> Absent, ddxSource |-> Absent]

OtitisPlain ==
    PlainFile("otitis", "Otitis", << <<"i","t","c","h","y"," ","e","a","r">> >>,
              <<"s","c","r","a","t","c","h"," ","c","o","u","g","h">>)
OtitisFiles ==
    { <<OtitisPlain>>,
      <<[OtitisPlain EXCEPT !.diagnosticAlgorithm = Val(<<"own-algorithm">>),
                            !.ddxSource = Val(<<"manual">>)]>>,
      <<[OtitisPlain EXCEPT !.clinicalPearls = Null,
                            !.monitoringItems = Val(<<>>),
                            !.associatedSymptoms = Val(<<"own-symptom">>)]>>,
      <<[OtitisPlain EXCEPT !.broken = TRUE]>> }
MangePlain ==
    PlainFile("mange", "Mange", <<>>, <<"m","i","t","e","s">>)
\* the last file names its keyword under clinicalSigns.progressive only,
\* has a Chinese name and an empty description
MangeFiles ==
    { <<>>,
      <<MangePlain>>,
      <<[MangePlain EXCEPT !.description = <<<<"c","o","u","g","h">>>>,
                            !.associatedLabFindings = Val(<<"own-lab">>)]>>,
      <<[MangePlain EXCEPT !.description = << <<>> >>,
                            !.nameZh = <<<<"z","h"," ","m","a","n","g","e">>>>,
                            !.progressive = <<<<"d","r","y"," ","c","o","u","g","h">>>>]>> }
\* the file names its keywords under diagnosis and treatment only
RabiesFiles ==
    { <<>>,
      <<[PlainFile("rabies", "Rabies (authored)", <<>>, <<"b","i","t","e","s">>)
            EXCEPT !.primaryTests = <<<<"s","c","r","a","t","c","h"," ","t","e","s","t">>>>,
                   !.additional = <<<<"b","i","o","p","s","y">>>>,
                   !.principles = <<<<"c","o","u","g","h"," ","s","y","r","u","p">>>>]>> }

Disks ==
    { [s \in {"otitis", "mange", "rabies"} |->
          CASE s = "otitis" -> o [] s = "mange" -> m [] OTHER -> r] :
      o \in OtitisFiles, m \in MangeFiles, r \in RabiesFiles }

NoMergeRun ==
    [script |-> "none", dryRun |-> FALSE, before |-> <<>>,
     mergedCount |-> 0, newCount |-> 0, skippedCount |-> 0,
     enrichedCount |-> 0, alreadyHasCount |-> 0, noMatchCount |-> 0]

InitMergeVars ==
    /\ disk \in Disks
    /\ mlast = NoMergeRun
    /\ nMerges = 0

\* one run of merge-book-ddx: Phase 2a, then Phase 2b
RunMergeBookDdx(dryRun) ==
    /\ nMerges < MaxMerges
    /\ LET a == Phase2a(1, [disk |-> disk, mergedCount |-> 0, skippedCount |-> 0,
                            newCount |-> 0], dryRun)
           b == Phase2b(1, a, dryRun)
       IN  /\ disk' = b.disk
           /\ mlast' = [NoMergeRun EXCEPT
                           !.script = "merge-book-ddx", !.dryRun = dryRun,
                           !.before = disk, !.mergedCount = b.mergedCount,
                           !.newCount = b.newCount, !.skippedCount = b.skippedCount]
    /\ nMerges' = nMerges + 1
    /\ UNCHANGED notMerge

\* one run of enrich-ddx-auto
RunEnrichDdxAuto(dryRun) ==
    /\ nMerges < MaxMerges
    /\ LET a == AutoLoop(1, [disk |-> disk, enrichedCount |-> 0,
                             alreadyHasCount |-> 0, noMatchCount |-> 0], dryRun)
       IN  /\ disk' = a.disk
           /\ mlast' = [NoMergeRun EXCEPT
                           !.script = "enrich-ddx-auto", !.dryRun = dryRun,
                           !.before = disk, !.enrichedCount = a.enrichedCount,
                           !.alreadyHasCount = a.alreadyHasCount,
                           !.noMatchCount = a.noMatchCount]
    /\ nMerges' = nMerges + 1
    /\ UNCHANGED notMerge

\* the parts before this one, not running
IdleCoreVars ==
    /\ InitFetchVars /\ IdleFileVars /\ IdleEnrichVars /\ IdleRunVars
    /\ IdleBatchVars /\ IdleResolveVars
InitMerge == InitMergeVars /\ IdleCoreVars /\ IdlePubVars /\ IdleLinkVars
NextMerge ==
    \/ \E dryRun \in BOOLEAN : RunMergeBookDdx(dryRun)
    \/ \E dryRun \in BOOLEAN : RunEnrichDdxAuto(dryRun)
SpecMerge == InitMerge /\ [][NextMerge]_vars

(***************************************************************************)
(* C22, C27: what the DDX merges change on the files                       *)
(***************************************************************************)
MergeRan == mlast.script # "none"
\* the slugs whose file existed and parsed before the last run
ExistingBefore ==
    { s \in DOMAIN mlast.before : mlast.before[s] # <<>> }
Before(s) == mlast.before[s][1]
After(s) == disk[s][1]

\* C22 (as stated): on a file that existed before the run, a run of
\* merge-book-ddx or enrich-ddx-auto changes no field other than ddxSource.
CEx_C22 ==
    MergeRan =>
        \A s \in ExistingBefore :
            \A f \in (DdxFields \cup AuthoredFields) \ {"ddxSource"} :
                After(s)[f] = Before(s)[f]

\* C22 (as the code has it): on a file that existed before the run, a run of
\* merge-book-ddx or enrich-ddx-auto keeps the file, leaves every authored
\* field alone, changes a DDX field (diagnosticAlgorithm, clinicalPearls,
\* monitoringItems, associatedSymptoms, associatedLabFindings, ddxSource)
\* only when the file had no content for it, and sets the marker ddxSource
\* only together with another DDX field: a marker the file carries is never
\* overwritten.
Thm_C22 ==
    MergeRan =>
        \A s \in ExistingBefore :
            /\ disk[s] # <<>>
            /\ \A f \in AuthoredFields : After(s)[f] = Before(s)[f]
            /\ \A f \in DdxFields :
                  Truthy(Before(s)[f]) => After(s)[f] = Before(s)[f]
            /\ After(s).ddxSource # Before(s).ddxSource =>
                  /\ ~Truthy(Before(s).ddxSource)
                  /\ After(s).ddxSource \in {Val(<<"book">>), Val(<<"auto-generated">>)}
                  /\ \E f \in DdxFields \ {"ddxSource"} : After(s)[f] # Before(s)[f]

\* a live merge-book-ddx run added book fields to a file that carried the
\* marker "manual" and kept that marker
Wit_C22 ==
    /\ mlast.script = "merge-book-ddx" /\ ~mlast.dryRun
    /\ "otitis" \in ExistingBefore
    /\ Before("otitis").ddxSource = Val(<<"manual">>)
    /\ After("otitis").ddxSource = Val(<<"manual">>)
    /\ After("otitis").clinicalPearls # Before("otitis").clinicalPearls

(***************************************************************************)
(* update-pubmed: runQuery, the references it inserts and the links of     *)
(* the per-disease queries, with the run's fetch() calls and sleeps        *)
(***************************************************************************)
MaxPubRuns == 1

\* the PMIDs the provider knows
PubPmids == {1, 2}
\* searchResult.idlist
IdLists == {<<>>, <<1>>, <<2>>, <<1, 2>>}
\* how the provider behaves during one runQuery: every call answers; one
\* call is answered 429 once and then succeeds ("retry-"); one call is
\* refused at every attempt, by HTTP 400 or a network error ("fail-"), or
\* answered 429 / 5xx at every attempt ("busy-"); the search is answered
\* 200 with esearchresult.ERROR ("error-search")
Nets ==
    {"ok", "retry-search", "retry-fetch", "fail-search", "fail-fetch",
     "busy-search", "busy-fetch", "error-search"}

\* data/pubmed-queries.yaml and the pubmedQueries of the disease files
globalQueries == << [name |-> "feline guidelines"] >>
diseaseQueries == << [diseaseSlug |-> "otitis"], [diseaseSlug |-> "mange"] >>
\* the diseases table after the catalog was seeded
SeededSlugs == {"otitis", "mange"}

\* fetchWithRetry of src/lib/pubmed: the fetch() calls and sleeps of one
\* request whose first `retries` attempts each end in a sleep and whose
\* next attempt returns or rethrows
RECURSIVE FetchEvents(_, _)
FetchEvents(call, retries) ==
    IF retries = 0 THEN <<call>>
    ELSE <<call, "sleep">> \o FetchEvents(call, retries - 1)
\* every attempt is answered 429 or 5xx: each one sleeps and continues,
\* and the loop ends with "Max retries exceeded"
RECURSIVE BusyEvents(_, _)
BusyEvents(call, attempts) ==
    IF attempts = 0 THEN <<>>
    ELSE <<call, "sleep">> \o BusyEvents(call, attempts - 1)
\* the calls and sleeps of one request under the provider's behaviour: a
\* refused attempt is caught, slept on and retried, and rethrown at
\* attempt MAX_RETRIES
Behaviour(call, net) ==
    CASE net = "retry-search" /\ call = "esearch" -> "retry"
      [] net = "retry-fetch" /\ call = "efetch" -> "retry"
      [] net = "fail-search" /\ call = "esearch" -> "fail"
      [] net = "fail-fetch" /\ call = "efetch" -> "fail"
      [] net = "busy-search" /\ call = "esearch" -> "busy"
      [] net = "busy-fetch" /\ call = "efetch" -> "busy"
      [] OTHER -> "ok"
RequestEvents(call, net) ==
    CASE Behaviour(call, net) = "retry" -> FetchEvents(call, 1)
      [] Behaviour(call, net) = "fail" -> FetchEvents(call, MAX_RETRIES - 1)
      [] Behaviour(call, net) = "busy" -> BusyEvents(call, MAX_RETRIES)
      [] OTHER -> <<call>>
SearchThrows(net) == net \in {"fail-search", "busy-search", "error-search"}
FetchThrows(net) == net \in {"fail-fetch", "busy-fetch"}

\* a row of references: its pmid (0: null) and its url
Row(pmid, url) == [pmid |-> pmid, url |-> url]
\* `https://pubmed.ncbi.nlm.nih.gov/${article.pmid}/`
PubmedUrl(pmid) == <<"pubmed", pmid>>

\* the id of the first row of references with this pmid, 0 when none
RefId(refs, pmid) ==
    IF \E k \in 1..Len(refs) : refs[k].pmid = pmid
    THEN CHOOSE k \in 1..Len(refs) :
            refs[k].pmid = pmid /\ \A j \in 1..(k - 1) : refs[j].pmid # pmid
    ELSE 0

\* runQuery once the search answered idlist: the PMIDs that have no row in
\* references, the articles efetch returned for them (parseArticle fails
\* on the first one when ~parsed), the rows inserted
runQuery(refs, idlist, parsed, net) ==
    LET newPmids == SelectSeq(idlist, LAMBDA pmid : RefId(refs, pmid) = 0)
        search   == RequestEvents("esearch", net)
        fetch    == RequestEvents("efetch", net)
        articles == IF parsed THEN newPmids ELSE Tail(newPmids)
        rows     == [k \in 1..Len(articles) |->
                        Row(articles[k], PubmedUrl(articles[k]))]
    IN  IF SearchThrows(net)
        THEN [total |-> 0, added |-> 0, newPmids |-> <<>>, refs |-> refs,
              events |-> search, threw |-> TRUE]
        ELSE IF idlist = <<>>
        THEN [total |-> 0, added |-> 0, newPmids |-> <<>>, refs |-> refs,
              events |-> search, threw |-> FALSE]
        ELSE IF newPmids = <<>>
        THEN [total |-> Len(idlist), added |-> 0, newPmids |-> <<>>, refs |-> refs,
              events |-> search, threw |-> FALSE]
        ELSE IF FetchThrows(net)
        THEN [total |-> Len(idlist), added |-> 0, newPmids |-> newPmids, refs |-> refs,
              events |-> search \o fetch, threw |-> TRUE]
        ELSE [total |-> Len(idlist), added |-> Len(articles), newPmids |-> newPmids,
              refs |-> refs \o rows,
              events |-> search \o fetch, threw |-> FALSE]

\* "Link to disease": one row per new PMID that has a reference and no
\* link to the disease yet
RECURSIVE LinkNew(_, _, _, _)
LinkNew(links, refs, slug, newPmids) ==
    IF newPmids = <<>> THEN links
    ELSE LET ref == RefId(refs, Head(newPmids))
             existing == \E k \in 1..Len(links) :
                            links[k].diseaseId = slug /\ links[k].referenceId = ref
         IN  IF ref # 0 /\ ~existing
             THEN LinkNew(Append(links, [diseaseId |-> slug, referenceId |-> ref]),
                          refs, slug, Tail(newPmids))
             ELSE LinkNew(links, refs, slug, Tail(newPmids))

\* ---- seedDiseases of src/lib/seed ----
MaxSeeds == 1

\* a guidelineRefs entry of a disease file: its url and its pmid (0: none)
GuidelineRef(url, pmid) == [url |-> url, pmid |-> pmid]
\* a disease file as the seed reads it; complete: slug, nameEn and
\* bodySystem are all there
DiseaseFile(slug, complete, gs) ==
    [slug |-> slug, complete |-> complete, guidelineRefs |-> gs]
\* the disease files the seed reads, in readdir order, with their
\* guidelineRefs: one PMID cited by its PubMed url; the same PMID cited
\* under another url by the other file as well; a guideline without pmid;
\* a file that lacks a required field
SeedFiles ==
    { << DiseaseFile("mange", TRUE, <<>>),
         DiseaseFile("otitis", TRUE, <<GuidelineRef(PubmedUrl(1), 1)>>) >>,
      << DiseaseFile("mange", TRUE, <<GuidelineRef(<<"org", 1>>, 1)>>),
         DiseaseFile("otitis", TRUE, <<GuidelineRef(PubmedUrl(1), 1)>>) >>,
      << DiseaseFile("mange", TRUE, <<GuidelineRef(<<"org", 2>>, 0)>>),
         DiseaseFile("otitis", TRUE, <<GuidelineRef(<<"org", 2>>, 0)>>) >>,
      << DiseaseFile("mange", FALSE, <<GuidelineRef(<<"org", 1>>, 1)>>),
         DiseaseFile("otitis", TRUE, <<GuidelineRef(PubmedUrl(1), 1)>>) >> }

\* the first row of references with this url, 0 when none
RefByUrl(refs, url) ==
    IF \E k \in 1..Len(refs) : refs[k].url = url
    THEN CHOOSE k \in 1..Len(refs) :
            refs[k].url = url /\ \A j \in 1..(k - 1) : refs[j].url # url
    ELSE 0

\* "Insert guideline references" of upsertDisease: each ref is looked up
\* by its url and inserted when there is none, which the UNIQUE constraint
\* on references.pmid refuses when the pmid is stored under another url;
\* then it is linked to the disease unless the link exists
RECURSIVE InsertGuidelineRefs(_, _)
InsertGuidelineRefs(db, gs) ==
    IF gs = <<>> \/ db.threw THEN db
    ELSE LET g        == Head(gs)
             found    == RefByUrl(db.refs, g.url)
             unique   == g.pmid = 0 \/ RefId(db.refs, g.pmid) = 0
             refs2    == IF found # 0 THEN db.refs ELSE Append(db.refs, Row(g.pmid, g.url))
             refId    == IF found # 0 THEN found ELSE Len(refs2)
             existing == \E k \in 1..Len(db.links) :
                            /\ db.links[k].diseaseId = db.slug
                            /\ db.links[k].referenceId = refId
         IN  IF found = 0 /\ ~unique THEN [db EXCEPT !.threw = TRUE]
             ELSE InsertGuidelineRefs(
                     [db EXCEPT !.refs = refs2,
                                !.links = IF existing THEN db.links
                                          ELSE Append(db.links,
                                                  [diseaseId |-> db.slug,
                                                   referenceId |-> refId])],
                     Tail(gs))

\* upsertDisease on one file: the disease row is updated or inserted
\* first, then its guideline references; when a reference is refused the
\* row stays and the function raises before it returns its action
upsertDisease(db, data) ==
    LET existing == data.slug \in db.rows
        stored   == [db EXCEPT !.slug = data.slug, !.rows = db.rows \cup {data.slug}]
        out      == InsertGuidelineRefs(stored, data.guidelineRefs)
    IN  IF out.threw THEN out
        ELSE IF existing
        THEN [out EXCEPT !.updated = db.updated + 1]
        ELSE [out EXCEPT !.added = db.added + 1]

\* seedDiseases: the loop over the files; a file that lacks slug, nameEn
\* or bodySystem is skipped, an error of upsertDisease ends the loop
RECURSIVE seedDiseases(_, _)
seedDiseases(db, files) ==
    IF files = <<>> \/ db.threw THEN db
    ELSE IF ~Head(files).complete THEN seedDiseases(db, Tail(files))
    ELSE seedDiseases(upsertDisease(db, Head(files)), Tail(files))

\* the references table the run finds: empty, or rows of an earlier run
InitPubVars ==
    /\ references \in {<<>>, <<Row(1, PubmedUrl(1))>>}
    /\ diseaseReferences = <<>>
    /\ http = <<>>
    /\ ppc = "idle"
    /\ qnext = 0
    /\ returned = {}
    /\ pubAdded = 0
    /\ nPubRuns = 0
    /\ diseases = SeededSlugs
    /\ seedResult = <<>>
    /\ nSeeds = 0

\* scripts/seed: the tables are created if they do not exist and the
\* disease files are upserted.  `fresh` is the seed script that removes
\* vetpro.db first, so that every table starts empty.
SeedDatabase(files, fresh) ==
    /\ ppc # "running"
    /\ nSeeds < MaxSeeds
    /\ LET db == [refs  |-> IF fresh THEN <<>> ELSE references,
                  links |-> IF fresh THEN <<>> ELSE diseaseReferences,
                  rows  |-> IF fresh THEN {} ELSE diseases,
                  slug |-> "", added |-> 0, updated |-> 0, threw |-> FALSE]
           out == seedDiseases(db, files)
       IN  /\ references' = out.refs
           /\ diseaseReferences' = out.links
           /\ diseases' = out.rows
           /\ seedResult' = << [added |-> out.added, updated |-> out.updated,
                                threw |-> out.threw] >>
    /\ nSeeds' = nSeeds + 1
    /\ UNCHANGED <<http, ppc, qnext, returned, pubAdded, nPubRuns>>
    /\ UNCHANGED notPub

\* main() starts and loads the queries
StartPubmed ==
    /\ ppc # "running"
    /\ nPubRuns < MaxPubRuns
    /\ ppc' = "running"
    /\ qnext' = 1
    /\ http' = <<>>
    /\ returned' = {}
    /\ pubAdded' = 0
    /\ nPubRuns' = nPubRuns + 1
    /\ UNCHANGED <<references, diseaseReferences, diseases, seedResult, nSeeds>>
    /\ UNCHANGED notPub

\* step 4, one iteration: runQuery of a global query, then sleep(200)
RunGlobalQuery(idlist, parsed, net) ==
    /\ ppc = "running"
    /\ qnext \in 1..Len(globalQueries)
    /\ LET result == runQuery(references, idlist, parsed, net)
       IN  /\ references' = result.refs
           /\ IF result.threw
              THEN /\ ppc' = "failed"
                   /\ http' = http \o result.events
                   /\ UNCHANGED <<qnext, pubAdded>>
              ELSE /\ http' = http \o result.events \o <<"sleep">>
                   /\ qnext' = qnext + 1
                   /\ pubAdded' = pubAdded + result.added
                   /\ UNCHANGED ppc
    /\ UNCHANGED <<diseaseReferences, returned, nPubRuns, diseases, seedResult, nSeeds>>
    /\ UNCHANGED notPub

\* step 5, one iteration: runQuery of a per-disease query, the links of its
\* new PMIDs, then sleep(200)
RunDiseaseQuery(idlist, parsed, net) ==
    /\ ppc = "running"
    /\ qnext \in (Len(globalQueries) + 1)..(Len(globalQueries) + Len(diseaseQueries))
    /\ LET q == diseaseQueries[qnext - Len(globalQueries)]
           result == runQuery(references, idlist, parsed, net)
       IN  /\ references' = result.refs
           /\ IF result.threw
              THEN /\ ppc' = "failed"
                   /\ http' = http \o result.events
                   /\ UNCHANGED <<qnext, pubAdded, diseaseReferences, returned>>
              ELSE /\ diseaseReferences' =
                        IF q.diseaseSlug \in diseases
                        THEN LinkNew(diseaseReferences, result.refs, q.diseaseSlug,
                                     result.newPmids)
                        ELSE diseaseReferences
                   /\ returned' = returned \cup
                        { <<q.diseaseSlug, idlist[k]>> : k \in 1..Len(idlist) }
                   /\ http' = http \o result.events \o <<"sleep">>
                   /\ qnext' = qnext + 1
                   /\ pubAdded' = pubAdded + result.added
                   /\ UNCHANGED ppc
    /\ UNCHANGED <<nPubRuns, diseases, seedResult, nSeeds>>
    /\ UNCHANGED notPub

\* step 6: every query ran, the run is logged as a success
FinishPubmed ==
    /\ ppc = "running"
    /\ qnext > Len(globalQueries) + Len(diseaseQueries)
    /\ ppc' = "done"
    /\ UNCHANGED diseases
    /\ UNCHANGED <<references, diseaseReferences, http, qnext, returned,
                   pubAdded, nPubRuns, seedResult, nSeeds>>
    /\ UNCHANGED notPub

InitPub == InitPubVars /\ IdleCoreVars /\ IdleMergeVars /\ IdleLinkVars
NextPub ==
    \/ \E files \in SeedFiles, fresh \in BOOLEAN : SeedDatabase(files, fresh)
    \/ StartPubmed
    \/ \E idlist \in IdLists, parsed \in BOOLEAN, net \in Nets :
          RunGlobalQuery(idlist, parsed, net)
    \/ \E idlist \in IdLists, parsed \in BOOLEAN, net \in Nets :
          RunDiseaseQuery(idlist, parsed, net)
    \/ FinishPubmed
SpecPub == InitPub /\ [][NextPub]_vars

(***************************************************************************)
(* C23, C30: the calls and the links of update-pubmed                      *)
(***************************************************************************)
IsCall(e) == e \in {"esearch", "efetch"}

\* C23 (as stated): in the order the run issued them, every fetch() call to
\* the provider that is followed by another call has a sleep between the
\* two.
CEx_C23 ==
    \A k \in 1..(Len(http) - 1) :
        IsCall(http[k]) => http[k + 1] = "sleep"

(***************************************************************************)
(* validate-links: the loop over groups of MAX_CONCURRENT checks and       *)
(* checkUrl, one step per request answered                                 *)
(***************************************************************************)
MaxUrls == 6

\* hostname.includes(d) for a d of SKIP_DOMAINS, on the hosts of the model
SkipHosts == {"pubmed.ncbi.nlm.nih.gov", "doi.org", "dx.doi.org"}
SkipDomain(entry) == entry.host \in SkipHosts

Url(host, source, sourceId) == [url |-> host, host |-> host, source |-> source, sourceId |-> sourceId]
\* a row of references with a url, a row of diseases with a staging
\* system (sourceUrl "": the staging system names no source)
Reference(id, url) == [id |-> id, url |-> url]
Staging(slug, sourceUrl) == [slug |-> slug, sourceUrl |-> sourceUrl]
NoLinkDb == [references |-> <<>>, stagings |-> <<>>]
\* the databases of the model: two references with the same url (url has
\* no UNIQUE constraint) and a PubMed url; a staging source that is also a
\* reference, a DOI url and a staging system without source; only a DOI
\* url; nothing; five urls to check
LinkDbs ==
    { [references |-> << Reference("r1", "a.org"), Reference("r2", "pubmed.ncbi.nlm.nih.gov"),
                         Reference("r3", "b.org"), Reference("r4", "a.org"),
                         Reference("r5", "d.org") >>,
       stagings   |-> << Staging("otitis", "c.org") >>],
      [references |-> << Reference("r1", "a.org"), Reference("r2", "dx.doi.org"),
                         Reference("r3", "c.org"), Reference("r4", "d.org") >>,
       stagings   |-> << Staging("cat", ""), Staging("mange", "a.org"),
                         Staging("otitis", "b.org") >>],
      [references |-> << Reference("r1", "doi.org") >>, stagings |-> <<>>],
      NoLinkDb,
      [references |-> << Reference("r1", "a.org"), Reference("r2", "pubmed.ncbi.nlm.nih.gov"),
                         Reference("r3", "b.org"), Reference("r4", "d.org"),
                         Reference("r5", "e.org") >>,
       stagings   |-> << Staging("mange", "a.org"), Staging("otitis", "c.org") >>] }

\* allUrls of main(): an entry per row of references, then an entry per
\* staging system that names a source; the guideline rows are selected
\* once more but never pushed
StagingUrls(stagings) ==
    LET named == SelectSeq(stagings, LAMBDA d : d.sourceUrl # "")
    IN  [k \in 1..Len(named) |-> Url(named[k].sourceUrl, "staging", named[k].slug)]
CollectUrls(db) ==
    [k \in 1..Len(db.references) |->
        Url(db.references[k].url, "reference", db.references[k].id)]
      \o StagingUrls(db.stagings)

\* const urls = allUrls.filter(...): the entries outside SKIP_DOMAINS
urls(all) == SelectSeq(all, LAMBDA entry : ~SkipDomain(entry))

\* const uniqueUrls = urls.filter(...): the first entry of each url
RECURSIVE Dedup(_, _)
Dedup(entries, seen) ==
    IF entries = <<>> THEN <<>>
    ELSE IF Head(entries).url \in seen THEN Dedup(Tail(entries), seen)
    ELSE <<Head(entries)>> \o Dedup(Tail(entries), seen \cup {Head(entries).url})
uniqueUrls == Dedup(urls(allUrls), {})

\* what a request is answered: a status, no answer within TIMEOUT_MS, or
\* a network error
HeadOutcomes == {"200", "404", "405", "429", "timeout", "error"}
GetOutcomes == {"200", "404", "429", "timeout", "error"}

NoResult == [url |-> "", status |-> "", ok |-> FALSE, error |-> "", source |-> "", sourceId |-> ""]
\* the catch of checkUrl
Caught(entry, o) ==
    [url |-> entry.url, status |-> "", ok |-> FALSE,
     error |-> IF o = "timeout" THEN "Timeout" ELSE "fetch failed",
     source |-> entry.source, sourceId |-> entry.sourceId]
\* checkUrl's return after the HEAD request (any answer but 405)
HeadResult(entry, o) ==
    IF o \in {"timeout", "error"} THEN Caught(entry, o)
    ELSE [url |-> entry.url, status |-> o, ok |-> (o = "200" \/ o = "429"),
          error |-> "", source |-> entry.source, sourceId |-> entry.sourceId]
\* checkUrl's return after the GET request that follows a 405
GetResult(entry, o) ==
    IF o \in {"timeout", "error"} THEN Caught(entry, o)
    ELSE [url |-> entry.url, status |-> o, ok |-> (o = "200"),
          error |-> "", source |-> entry.source, sourceId |-> entry.sourceId]

\* the whole of checkUrl, from the answered its requests got
checkUrl(entry, os) ==
    IF os[1] = "405" THEN GetResult(entry, os[2]) ELSE HeadResult(entry, os[1])

\* a variant of Group: groups of four
GroupOfFour(i) == { k \in 1..Len(uniqueUrls) : i < k /\ k <= i + 4 }
\* uniqueUrls.slice(i, i + MAX_CONCURRENT), as positions
Group(i) == { k \in 1..Len(uniqueUrls) : i < k /\ k <= i + MAX_CONCURRENT }
InFlight == { k \in DOMAIN checks : checks[k] \in {"head", "get"} }

InitLinkVars ==
    /\ linkDb \in { db \in LinkDbs : Len(CollectUrls(db)) <= MaxUrls }
    /\ allUrls = <<>>
    /\ lpc = "idle"
    /\ li = 0
    /\ checks = <<>>
    /\ answered = <<>>
    /\ settled = <<>>
    /\ lresults = <<>>

\* main() collects, filters and deduplicates the URLs
StartLinks ==
    /\ lpc = "idle"
    /\ lpc' = "loop"
    /\ li' = 0
    /\ allUrls' = CollectUrls(linkDb)
    /\ LET unique == Dedup(urls(allUrls'), {})
       IN  /\ checks' = [k \in 1..Len(unique) |-> "queued"]
           /\ answered' = [k \in 1..Len(unique) |-> <<>>]
           /\ settled' = [k \in 1..Len(unique) |-> NoResult]
    /\ lresults' = <<>>
    /\ UNCHANGED linkDb
    /\ UNCHANGED notLink

\* batch.map(checkUrl): every check of the group runs to its first await,
\* the HEAD request
StartGroup ==
    /\ lpc = "loop"
    /\ li < Len(uniqueUrls)
    /\ checks' = [k \in DOMAIN checks |-> IF k \in Group(li) THEN "head" ELSE checks[k]]
    /\ lpc' = "group"
    /\ UNCHANGED <<linkDb, allUrls, li, answered, settled, lresults>>
    /\ UNCHANGED notLink

\* the HEAD request of check k is answered, times out or fails: checkUrl
\* returns, or issues the GET request after a 405
HeadAnswers(k, o) ==
    /\ lpc = "group"
    /\ k \in DOMAIN checks
    /\ checks[k] = "head"
    /\ answered' = [answered EXCEPT ![k] = Append(@, o)]
    /\ IF o = "405"
       THEN /\ checks' = [checks EXCEPT ![k] = "get"]
            /\ UNCHANGED settled
       ELSE /\ checks' = [checks EXCEPT ![k] = "settled"]
            /\ settled' = [settled EXCEPT ![k] = HeadResult(uniqueUrls[k], o)]
    /\ UNCHANGED <<linkDb, allUrls, lpc, li, lresults>>
    /\ UNCHANGED notLink

\* the GET request of check k is answered or times out: checkUrl returns
GetAnswers(k, o) ==
    /\ lpc = "group"
    /\ k \in DOMAIN checks
    /\ checks[k] = "get"
    /\ answered' = [answered EXCEPT ![k] = Append(@, o)]
    /\ checks' = [checks EXCEPT ![k] = "settled"]
    /\ settled' = [settled EXCEPT ![k] = GetResult(uniqueUrls[k], o)]
    /\ UNCHANGED <<linkDb, allUrls, lpc, li, lresults>>
    /\ UNCHANGED notLink

\* a variant of ResultsOf: the results up to the first failed check
RECURSIVE ResultsUntilFailure(_, _)
ResultsUntilFailure(from, to) ==
    IF from > to THEN <<>>
    ELSE IF ~settled[from].ok THEN <<settled[from]>>
    ELSE <<settled[from]>> \o ResultsUntilFailure(from + 1, to)
\* the results of positions from..to of settled, in order
RECURSIVE ResultsOf(_, _)
ResultsOf(from, to) ==
    IF from > to THEN <<>> ELSE <<settled[from]>> \o ResultsOf(from + 1, to)

\* Promise.all resolved: the results of the group are pushed in the order
\* of the group and the loop moves on (after the delay between groups)
CollectGroup ==
    /\ lpc = "group"
    /\ \A k \in Group(li) : checks[k] = "settled"
    /\ lresults' = lresults \o ResultsOf(li + 1, Min(li + MAX_CONCURRENT, Len(uniqueUrls)))
    /\ li' = li + MAX_CONCURRENT
    /\ lpc' = "loop"
    /\ UNCHANGED <<linkDb, allUrls, checks, answered, settled>>
    /\ UNCHANGED notLink

\* the loop ended: summary and log
FinishLinks ==
    /\ lpc = "loop"
    /\ li >= Len(uniqueUrls)
    /\ lpc' = "done"
    /\ UNCHANGED <<linkDb, allUrls, li, checks, answered, settled, lresults>>
    /\ UNCHANGED notLink

InitLink == InitLinkVars /\ IdleCoreVars /\ IdleMergeVars /\ IdlePubVars
NextLink ==
    \/ StartLinks
    \/ StartGroup
    \/ \E k \in 1..MaxUrls, o \in HeadOutcomes : HeadAnswers(k, o)
    \/ \E k \in 1..MaxUrls, o \in GetOutcomes : GetAnswers(k, o)
    \/ CollectGroup
    \/ FinishLinks
SpecLink == InitLink /\ [][NextLink]_vars

(***************************************************************************)
(* C24, C25: the concurrency of the link checks                            *)
(***************************************************************************)
LinksStarted == lpc # "idle"

\* C24: at any moment at most MAX_CONCURRENT = 3 checks are in flight, they
\* all belong to the group of at most 3 consecutive URLs the loop is at,
\* and while a check of a group is in flight or the next group starts,
\* every check of the groups before it has returned and its result is
\* recorded.
Thm_C24 ==
    LinksStarted =>
        /\ Cardinality(InFlight) <= MAX_CONCURRENT
        /\ Cardinality(Group(li)) <= MAX_CONCURRENT
        /\ InFlight \subseteq Group(li)
        /\ InFlight # {} => lpc = "group"
        /\ \A k \in DOMAIN checks :
              k <= li => checks[k] = "settled" /\ k <= Len(lresults)
        /\ \A k \in DOMAIN checks : k > li + MAX_CONCURRENT => checks[k] = "queued"

\* the second group is in flight while the first, of three checks, is
\* recorded
Wit_C24 ==
    /\ lpc = "group" /\ li = MAX_CONCURRENT
    /\ InFlight # {}
    /\ Len(lresults) = MAX_CONCURRENT
    /\ \E k \in 1..MAX_CONCURRENT : ~lresults[k].ok

\* the last answer the requests of check k got
LastAnswer(k) == answered[k][Len(answered[k])]
\* check k failed by a timeout or a network error
FailedCheck(k) == LastAnswer(k) \in {"timeout", "error"}

\* C25: whatever the order in which the checks return and whatever they are
\* answered, the results hold one entry per deduplicated URL checked so
\* far, in the order of the URLs, each decided by the answers to that URL's
\* own requests (a timeout or an error gives a failure with no status);
\* when the run ends every deduplicated URL outside the skipped domains has
\* exactly one result.
Thm_C25 ==
    LinksStarted =>
        /\ Len(lresults) = Min(li, Len(uniqueUrls))
        /\ \A k \in 1..Len(lresults) :
              /\ lresults[k].url = uniqueUrls[k].url
              /\ lresults[k].sourceId = uniqueUrls[k].sourceId
              /\ FailedCheck(k) =>
                    ~lresults[k].ok /\ lresults[k].status = "" /\ lresults[k].error # ""
              /\ ~FailedCheck(k) =>
                    /\ lresults[k].status = LastAnswer(k)
                    /\ lresults[k].ok <=>
                          \/ LastAnswer(k) = "200"
                          \/ LastAnswer(k) = "429" /\ Len(answered[k]) = 1
        /\ lpc = "done" =>
              \A j \in 1..Len(allUrls) :
                  ~SkipDomain(allUrls[j]) =>
                      Cardinality({ k \in 1..Len(lresults) : lresults[k].url = allUrls[j].url }) = 1

\* the run ended; a check of the first group timed out, the URL after it in
\* the group and a URL of the next group were found reachable
Wit_C25 ==
    /\ lpc = "done"
    /\ Len(lresults) > MAX_CONCURRENT
    /\ FailedCheck(1) /\ LastAnswer(1) = "timeout"
    /\ lresults[2].ok
    /\ lresults[MAX_CONCURRENT + 1].ok
    /\ Len(allUrls) > Len(lresults)

(***************************************************************************)
(* C26: the saturation skip of enrich-guidelinerefs                        *)
(***************************************************************************)
\* C26 (as stated): a call of processDisease of enrich-guidelinerefs on an
\* entity that holds 4 or more guidelineRefs issues no search and adds no
\* ref.
CEx_C26 ==
    (last.script = "enrich" /\ Len(last.before) >= 4) =>
        (last.searches = 0 /\ last.added = 0)

\* a step that is one run of merge-book-ddx
MergeBookRuns ==
    nMerges' = nMerges + 1 /\ mlast'.script = "merge-book-ddx"
\* the slugs of the BOOK-only entries
BookOnlySlugs ==
    { unmatchedEntries[i].bookSlug : i \in 1..Len(unmatchedEntries) } \cap DOMAIN disk

KeepsContent ==
    MergeBookRuns =>
        /\ \A s \in DOMAIN disk :
              disk[s] # <<>> =>
                  /\ disk'[s] # <<>>
                  /\ \A f \in DdxFields :
                        Truthy(disk[s][1][f]) => disk'[s][1][f] = disk[s][1][f]
        /\ \A s \in BookOnlySlugs : disk[s] # <<>> => disk'[s] = disk[s]
        /\ mlast'.dryRun => disk' = disk
        /\ (mlast.script = "merge-book-ddx" /\ ~mlast.dryRun) =>
              /\ mlast'.mergedCount = 0
              /\ mlast'.newCount = 0
              /\ disk' = disk

\* C27: a run of merge-book-ddx keeps every value of diagnosticAlgorithm,
\* clinicalPearls, monitoringItems, associatedSymptoms,
\* associatedLabFindings and ddxSource that a file already had, leaves the
\* file of a BOOK-only entry alone when it exists, and, when it follows a
\* live run over the same inputs, counts 0 merged and 0 new files and
\* changes no file.
Thm_C27 == [][KeepsContent]_vars

\* a second run in a row found nothing to merge and nothing to create,
\* after a live run that had merged the book's pearls into a file that
\* keeps its own algorithm and marker, and had created the BOOK-only file
Wit_C27 ==
    /\ nMerges = 2
    /\ mlast.script = "merge-book-ddx"
    /\ mlast.mergedCount = 0 /\ mlast.newCount = 0
    /\ mlast.before = disk
    /\ disk["rabies"] # <<>> /\ disk["rabies"][1].ddxSource = Val(<<"book-only">>)
    /\ disk["otitis"][1].diagnosticAlgorithm = Val(<<"own-algorithm">>)
    /\ disk["otitis"][1].ddxSource = Val(<<"manual">>)
    /\ disk["otitis"][1].clinicalPearls = Val(<<"book-pearl">>)
    /\ disk["otitis"][1].monitoringItems = Val(<<"stray-monitoring">>)

(***************************************************************************)
(* C28: repeated live auto-batch runs of rare-knowledge-rescue             *)
(***************************************************************************)
\* main() of rare-knowledge-rescue up to its loop, started as
\* `--batch auto --max <max>` in live mode (the count of runs stops at
\* MaxBatches)
StartRescue(max) ==
    /\ bpc \in {"idle", "done"}
    /\ nBatches' = Min(nBatches + 1, MaxBatches)
    /\ bargs' = [script |-> "rare", dry |-> FALSE, auto |-> TRUE, max |-> max,
                 slug |-> 0, batch |-> -1]
    /\ toProcess' = SelectBatch("rare", catalog, 0, TRUE, max, stateFile)
    /\ bdone' = 0
    /\ btotal' = 0
    /\ bpc' = "running"
    /\ UNCHANGED <<catalog, stateFile, ckptBatch>>
    /\ UNCHANGED notBatch

NextRescue ==
    \/ \E max \in BatchSizes : StartRescue(max)
    \/ \E fail \in BatchFailures : ProcessNext(fail)
    \/ EndBatch
SpecRescue == InitBatch /\ [][NextRescue]_vars
\* a run is started
RunStarts == bpc \in {"idle", "done"} /\ bpc' = "running"
\* the runs are repeated without end, and each one runs to its end as in
\* SpecBatchFair
SpecRescueFair ==
    /\ SpecRescue
    /\ WF_bpc(RunStarts)
    /\ WF_bdone(LoopAdvances)
    /\ WF_vars(EndBatch)

\* entity s is in the batch of the run under way
Selected(s) ==
    bpc = "running" /\ \E i \in 1..Len(toProcess) : toProcess[i].slug = s

\* C28 (as stated): under repeated live auto-batch runs of
\* rare-knowledge-rescue, every entity of the catalog that is eligible is
\* eventually in the batch of a run.
CEx_C28 ==
    \A s \in 1..3 :
        (s <= Len(catalog) /\ Eligible("rare", catalog[s], 0)) => <>Selected(s)

(***************************************************************************)
(* C29: one external entry per canonical entity                            *)
(***************************************************************************)
\* C29 (as stated): no two entries of the match table of match-book-vetpro
\* are assigned the same canonical entity, whatever tiers matched them.
CEx_C29 ==
    \A i, j \in 1..Len(results) :
        (i # j /\ results[i].vetproSlug # <<>>)
            => results[i].vetproSlug # results[j].vetproSlug

\* the rows of links that join the disease to a reference of this pmid
LinksOf(refs, links, slug, pmid) ==
    { k \in 1..Len(links) :
        /\ links[k].diseaseId = slug
        /\ refs[links[k].referenceId].pmid = pmid }

\* C30 (as stated): when a run of update-pubmed ends with success, every
\* PMID that a per-disease query returned for a disease of the diseases
\* table and that has a row in references is linked to that disease by
\* exactly one row, also when its reference
\* was inserted earlier (by the seed, by an earlier run or by another
\* query).
RunSucceeds ==
    (ppc = "running" /\ ppc' = "done") =>
        \A pair \in returned' :
            (pair[1] \in diseases' /\ RefId(references', pair[2]) # 0)
                => Cardinality(LinksOf(references', diseaseReferences',
                                       pair[1], pair[2])) = 1
CEx_C30 == [][RunSucceeds]_vars

=============================================================================
